---- MODULE Spec2Model ----
(***************************************************************************)
(* libobmm: the userspace client of the OBMM control device.               *)
(*                                                                         *)
(* libobmm.c       the public transactions and the device handle           *)
(* vendor_adaptor.c the topology resolver (sysfs), the vendor payload and   *)
(*                 the import / preimport channel validation               *)
(*                                                                         *)
(* A call of the public API is one action: it runs the whole function and  *)
(* records, in `last`, its arguments, its result, the command it sent and  *)
(* the ordered trace of the I/O it performed.  The kernel side (open,      *)
(* ioctl, sysfs, malloc) is the environment.                               *)
(***************************************************************************)
EXTENDS Integers, Sequences, FiniteSets, TLC

VARIABLES
    obmm_dev_fd,   \* libobmm.c:40  static int obmm_dev_fd
    errno,         \* the calling thread's errno
    heap,          \* number of live vendor payload allocations (calloc - free)
    sysfs,         \* slot -> controller attribute directory
    devnode,       \* whether open("/dev/obmm") currently succeeds
    last,          \* the call that has just returned (NoCall when consumed)
    fdtable,       \* the descriptors open() has returned for the control device
    mtx,           \* libobmm.c:41  the thread holding obmm_dev_fd_lock, or 0
    pc,            \* thread -> where it is in its transaction
    seen,          \* thread -> obmm_dev_fd as it saw it under the lock
    errsv,         \* thread -> obmm_dev_get_fd's local errsv
    tret,          \* thread -> the value its obmm_dev_get_fd call returned
    terrno         \* thread -> its errno

seqVars == <<errno, heap, sysfs, last>>
mtVars  == <<mtx, pc, seen, errsv, tret, terrno>>
vars == <<obmm_dev_fd, fdtable, devnode, seqVars, mtVars>>

----------------------------------------------------------------------------
(* Program constants *)

OBMM_INVALID_MEMID == 0
NUMA_NO_NODE == -1
MAX_CONTROLLERS == 8
EID_SIZE == 16
UINT8_MAX == 255
INT_MAX == 2147483647
INT_MIN == -INT_MAX - 1

(* errno values, by name; ENONE is errno == 0 *)
ENONE  == "0"
EINVAL == "EINVAL"
ENODEV == "ENODEV"
ENOMEM == "ENOMEM"

(* import flags of <ub/obmm.h>, a flag word is the set of the bits set *)
OBMM_IMPORT_FLAG_NUMA_REMOTE == "NUMA_REMOTE"
OBMM_IMPORT_FLAG_PREIMPORT   == "PREIMPORT"

(* mmap protection bits *)
PROT_NONE  == 0
PROT_READ  == 1
PROT_WRITE == 2

----------------------------------------------------------------------------
(* Bounds of the model *)

\* a call is not started while more than this many payloads are live
MaxLive == 1
\* open() is not attempted once this many descriptors are open
MaxOpens == 2
\* threads of the concurrent specification
NThreads == 2
\* entries of a per-NUMA-node length vector (OBMM_MAX_LOCAL_NUMA_NODES of
\* <ub/obmm.h>, which is not part of the repository)
OBMM_MAX_LOCAL_NUMA_NODES == 2

----------------------------------------------------------------------------
(* I/O trace events *)

Ev(kind, what, arg) == [ev |-> kind, what |-> what, arg |-> arg]

EvOpen      == Ev("open", "/dev/obmm", -1)
EvGlob(i)   == Ev("glob", "ubc", i)
EvRead(a,i) == Ev("read", a, i)
EvCalloc(p) == Ev("calloc", "vendor_info", p)
EvFree(p)   == Ev("free", "vendor_info", p)
EvIoctl(c,p) == Ev("ioctl", c, p)

NoPayload == 0

----------------------------------------------------------------------------
(* Endpoint ids: 16 bytes, seen as the 32-bit little-endian word of bytes  *)
(* 0..3 and the value of bytes 4..15.                                      *)

Eid(lo, rest) == [lo |-> lo, rest |-> rest]

g_invalid_eid == Eid(0, 0)

----------------------------------------------------------------------------
(* sysfs: a slot is absent, or a directory whose attribute files hold an   *)
(* integer or are unreadable / unparsable.                                 *)

\* a file whose text strtol turns into the long hi * 2^31 + v (v is any int
\* when hi = 0 and 0 .. INT_MAX otherwise): "0x80000000" is Long(1, 0)
Long(hi, v) == [ok |-> TRUE, val |-> v, hi |-> hi]

File(v) == Long(0, v)
Unreadable == [ok |-> FALSE, val |-> 0, hi |-> 0]

Absent == [path |-> "none", eid |-> Unreadable, ummu_map |-> Unreadable,
           numa |-> Unreadable, primary_cna |-> Unreadable]

Ctl(e, m, n, c) == [path |-> "ok", eid |-> e, ummu_map |-> m, numa |-> n,
                    primary_cna |-> c]

\* the controller directories the environment may expose in a slot
Profiles ==
    { Absent,
      Ctl(File(1), File(3), File(1), File(0)),
      Ctl(File(2), File(35), File(0), File(1)),
      Ctl(Unreadable, File(3), File(1), File(0)),
      Ctl(File(1), Unreadable, File(1), Unreadable),
      Ctl(File(1), File(3), Unreadable, File(0)),
      Ctl(Long(1, 0), File(3), File(1), File(0)),
      [Ctl(File(2), File(0), File(0), File(1)) EXCEPT !.path = "toolong"] }

Slots == 0 .. (MAX_CONTROLLERS - 1)

\* the slots in which the environment exposes a controller directory
PopulatedSlots == { 0, 1 }

\* vendor_adaptor.c:64  the int the attribute file parses to, or -1
read_int_from_file(content) ==
    IF ~content.ok THEN -1
    ELSE IF content.hi > 0 \/ content.val > INT_MAX THEN -1
    ELSE IF content.hi < 0 \/ content.val < INT_MIN THEN -1
    ELSE content.val

\* vendor_adaptor.c:97
get_ubc_attr(fs, i, attr) == read_int_from_file(fs[i][attr])

\* vendor_adaptor.c:108  0, or the error that makes the scan skip the slot
get_ubc_path(fs, i) ==
    IF fs[i].path = "none" THEN ENODEV
    ELSE IF fs[i].path = "toolong" THEN EINVAL
    ELSE ENONE

\* vendor_adaptor.c:149-150  the int (>= 0 here) stored as unsigned int in
\* bytes 0..3 of a zeroed 16-byte buffer; the lo of an id is the int whose
\* 32 bits are its bytes 0..3
sysfs_eid(r) == Eid(r, 0)

\* faulty variant: a controller whose eid cannot be read is skipped like an
\* absent one (C18 as amended depends on the scan stopping there)
RECURSIVE get_ubc_scan_skipping(_, _, _, _)
get_ubc_scan_skipping(fs, eid, i, tr) ==
    IF i >= MAX_CONTROLLERS
    THEN [ret |-> -1, index |-> -1, errno |-> ENODEV, trace |-> tr]
    ELSE IF get_ubc_path(fs, i) # ENONE
    THEN get_ubc_scan_skipping(fs, eid, i + 1, Append(tr, EvGlob(i)))
    ELSE LET r   == get_ubc_attr(fs, i, "eid")
             tr2 == tr \o <<EvGlob(i), EvRead("eid", i)>>
         IN  IF r < 0 \/ sysfs_eid(r) # eid
             THEN get_ubc_scan_skipping(fs, eid, i + 1, tr2)
             ELSE [ret |-> 0, index |-> i, errno |-> ENONE, trace |-> tr2]

\* vendor_adaptor.c:135  the scan of the controller slots from slot i on
RECURSIVE get_ubc_by_eid_from(_, _, _, _)
get_ubc_by_eid_from(fs, eid, i, tr) ==
    IF i >= MAX_CONTROLLERS
    THEN [ret |-> -1, index |-> -1, errno |-> ENODEV, trace |-> tr]
    ELSE IF get_ubc_path(fs, i) # ENONE
    THEN get_ubc_by_eid_from(fs, eid, i + 1, Append(tr, EvGlob(i)))
    ELSE LET r   == get_ubc_attr(fs, i, "eid")
             tr2 == tr \o <<EvGlob(i), EvRead("eid", i)>>
         IN  IF r < 0
             THEN [ret |-> -1, index |-> -1, errno |-> ENODEV, trace |-> tr2]
             ELSE IF sysfs_eid(r) # eid
             THEN get_ubc_by_eid_from(fs, eid, i + 1, tr2)
             ELSE [ret |-> 0, index |-> i, errno |-> ENONE, trace |-> tr2]

get_ubc_by_eid(fs, eid) == get_ubc_by_eid_from(fs, eid, 0, <<>>)

\* vendor_adaptor.c:173-185  the attributes of the controller the scan found
ctl_node(fs, u) ==
    IF u.ret # 0
    THEN [ummu_mapping |-> 0, numa_id |-> 0, valid |-> FALSE, trace |-> u.trace]
    ELSE LET m   == get_ubc_attr(fs, u.index, "ummu_map")
             n   == get_ubc_attr(fs, u.index, "numa")
             tr1 == Append(u.trace, EvRead("ummu_map", u.index))
         IN  IF m < 0
             THEN [ummu_mapping |-> m, numa_id |-> 0, valid |-> FALSE,
                   trace |-> tr1]
             ELSE [ummu_mapping |-> m, numa_id |-> n, valid |-> n >= 0,
                   trace |-> Append(tr1, EvRead("numa", u.index))]

\* vendor_adaptor.c:163  the node {ummu_mapping, numa_id, valid} of an eid
get_ctl_by_eid(fs, eid) == ctl_node(fs, get_ubc_by_eid(fs, eid))

\* vendor_adaptor.c:194-205  the primary_cna of the controller the scan found
primary_cna(fs, u) ==
    IF u.ret # 0
    THEN [ret |-> u.ret, cna |-> 0, errno |-> u.errno, trace |-> u.trace]
    ELSE LET c  == get_ubc_attr(fs, u.index, "primary_cna")
             tr == Append(u.trace, EvRead("primary_cna", u.index))
         IN  IF c < 0
             THEN [ret |-> -1, cna |-> 0, errno |-> ENODEV, trace |-> tr]
             ELSE [ret |-> 0, cna |-> c, errno |-> ENONE, trace |-> tr]

\* vendor_adaptor.c:188  the primary channel number of the controller of eid
get_primary_cna_by_eid(fs, eid) == primary_cna(fs, get_ubc_by_eid(fs, eid))

----------------------------------------------------------------------------
(* The environment's answers to one call *)

\* what malloc, the build and the kernel answer during a call:
\*   allocOk  calloc returns a buffer
\*   fits     sizeof(struct hisi_ummu_tdev_info) <= OBMM_MAX_VENDOR_LEN
\*   freeErr  the errno free() leaves ("keep": unchanged)
\*   dev      the ioctl's reply
DevOk == [ok |-> TRUE, err |-> ENONE, mem_id |-> 7, uba |-> 8192,
          tokenid |-> 5, numa_id |-> 2, pa |-> 12288, offset |-> 64]

DevFail(e) == [DevOk EXCEPT !.ok = FALSE, !.err = e, !.mem_id = 0]

NoReply == [DevOk EXCEPT !.ok = FALSE, !.err = "none", !.mem_id = 0]

DevReplies == { DevOk, DevFail("EBUSY") }

Keep == "keep"

Envs == [allocOk : BOOLEAN, fits : BOOLEAN, freeErr : {Keep, "EAGAIN"},
         dev : DevReplies]

OpenErr == "ENOENT"

\* the process state a call of the single-threaded caller starts from
Proc == [fd |-> obmm_dev_fd, tbl |-> fdtable, errno |-> errno, heap |-> heap,
         node |-> devnode, fs |-> sysfs]

\* open(2): the lowest descriptor not in use (0, 1, 2 are the standard streams)
NewFd(tbl) == CHOOSE n \in 3 .. (3 + Cardinality(tbl)) : n \notin tbl

----------------------------------------------------------------------------
(* libobmm.c:38  obmm_dev_get_fd, run by one thread without interruption *)

\* faulty variant: the handle is opened again although one is cached (C10
\* depends on the test under the lock)
NeedOpenAlways(fd) == TRUE

\* faulty variant: a failed open is remembered and never tried again (C11
\* depends on -1 meaning "not open yet")
NeedOpenUntried(fd) == fd < -1

\* libobmm.c:45
NeedOpen(fd) == fd < 0

obmm_dev_get_fd(p) ==
    IF NeedOpen(p.fd)
    THEN IF p.node
         THEN [ret |-> NewFd(p.tbl), fd |-> NewFd(p.tbl),
               tbl |-> p.tbl \cup {NewFd(p.tbl)}, errno |-> ENONE,
               trace |-> <<EvOpen>>]
         ELSE [ret |-> -1, fd |-> -1, tbl |-> p.tbl, errno |-> OpenErr,
               trace |-> <<EvOpen>>]
    ELSE [ret |-> p.fd, fd |-> p.fd, tbl |-> p.tbl, errno |-> ENONE,
          trace |-> <<>>]

----------------------------------------------------------------------------
(* Vendor payload *)

\* vendor_adaptor.c:222  the bits of (unsigned long)(1 << ummu_mapping); the
\* shift is an int shift, undefined from 31 on
MaskOutcomes(m) ==
    IF m < 31 THEN { {m} }
    ELSE IF m = 31 THEN { 31 .. 63, {31}, {} }
    ELSE { {m % 32}, {}, IF m % 32 = 31 THEN 31 .. 63 ELSE {m % 32} }

NoInfo == [ver |-> "none", on_chip |-> FALSE, ummu_idx_mask |-> {}]

\* vendor_adaptor.c:208
init_vendor_info(ummu_mapping, hp, env, mask) ==
    IF ~env.allocOk
    THEN [ret |-> ENOMEM, ptr |-> NoPayload, info |-> NoInfo, heap |-> hp,
          trace |-> << >>]
    ELSE IF ~env.fits
    THEN [ret |-> EINVAL, ptr |-> NoPayload, info |-> NoInfo, heap |-> hp,
          trace |-> <<EvCalloc(hp + 1), EvFree(hp + 1)>>]
    ELSE [ret |-> ENONE, ptr |-> hp + 1,
          info |-> [ver |-> "HISI_TDEV_INFO_V1", on_chip |-> TRUE,
                    ummu_idx_mask |-> mask],
          heap |-> hp + 1, trace |-> <<EvCalloc(hp + 1)>>]

\* vendor_adaptor.c:243-248  the payload built for a valid node
adapt_built(node, v) ==
    IF v.ret # ENONE
    THEN [ret |-> v.ret, ptr |-> NoPayload, info |-> NoInfo, numa |-> 0,
          heap |-> v.heap, trace |-> node.trace \o v.trace]
    ELSE [ret |-> ENONE, ptr |-> v.ptr, info |-> v.info,
          numa |-> node.numa_id, heap |-> v.heap,
          trace |-> node.trace \o v.trace]

\* faulty variant: a payload left over from an earlier call is sent again
\* instead of building one from the node just resolved (C15 depends on
\* nothing being kept between calls)
adapt_node_reusing(node, hp, env, mask) ==
    IF hp > 0
    THEN [ret |-> ENONE, ptr |-> hp,
          info |-> [ver |-> "HISI_TDEV_INFO_V1", on_chip |-> TRUE,
                    ummu_idx_mask |-> {}],
          numa |-> 0, heap |-> hp, trace |-> node.trace]
    ELSE IF ~node.valid
    THEN [ret |-> ENODEV, ptr |-> NoPayload, info |-> NoInfo, numa |-> 0,
          heap |-> hp, trace |-> node.trace]
    ELSE adapt_built(node, init_vendor_info(node.ummu_mapping, hp, env, mask))

\* vendor_adaptor.c:239-242  the node the destination eid resolved to
adapt_node(node, hp, env, mask) ==
    IF ~node.valid
    THEN [ret |-> ENODEV, ptr |-> NoPayload, info |-> NoInfo, numa |-> 0,
          heap |-> hp, trace |-> node.trace]
    ELSE adapt_built(node, init_vendor_info(node.ummu_mapping, hp, env, mask))

\* faulty variant: the all-zero eid is looked up like any other (C6 depends
\* on the check coming first)
vendor_adapt_export_unguarded(fs, desc, hp, env, mask) ==
    adapt_node(get_ctl_by_eid(fs, desc.deid), hp, env, mask)

\* vendor_adaptor.c:228
vendor_adapt_export(fs, desc, hp, env, mask) ==
    IF desc.deid = g_invalid_eid
    THEN [ret |-> EINVAL, ptr |-> NoPayload, info |-> NoInfo, numa |-> 0,
          heap |-> hp, trace |-> << >>]
    ELSE adapt_node(get_ctl_by_eid(fs, desc.deid), hp, env, mask)

\* the mapping index vendor_adapt_export hands to init_vendor_info, if any
MappingOf(fs, desc) ==
    IF desc.null \/ desc.v.deid = g_invalid_eid THEN 0
    ELSE get_ctl_by_eid(fs, desc.v.deid).ummu_mapping

\* faulty variant: the payload is not released when the ioctl failed (C8
\* depends on the release on both paths)
free_vendor_info_on_success(ptr, hp, env, e) ==
    [heap |-> IF ptr = NoPayload \/ ~env.dev.ok THEN hp ELSE hp - 1,
     errno |-> IF env.freeErr = Keep THEN e ELSE env.freeErr,
     trace |-> IF env.dev.ok THEN <<EvFree(ptr)>> ELSE << >>]

\* vendor_adaptor.c:251  free(): the heap after, and the errno it leaves
free_vendor_info(ptr, hp, env, e) ==
    [heap |-> IF ptr = NoPayload THEN hp ELSE hp - 1,
     errno |-> IF env.freeErr = Keep THEN e ELSE env.freeErr,
     trace |-> <<EvFree(ptr)>>]

----------------------------------------------------------------------------
(* Caller memory *)

Ptr(v)     == [null |-> FALSE, v |-> v]
NullPtr(v) == [null |-> TRUE, v |-> v]

\* 64-bit unsigned values (size_t, uint64_t) that the code adds up: four
\* 16-bit limbs, least significant first
Limb == 2 ^ 16

U64(n) == <<n % Limb, (n \div Limb) % Limb, 0, 0>>

Zero64 == U64(0)

\* 2^63
Top64 == <<0, 0, 0, 32768>>

\* the += of two uint64_t: the carry out of the top limb is dropped
Add64(a, b) ==
    LET s1 == a[1] + b[1]
        s2 == a[2] + b[2] + (s1 \div Limb)
        s3 == a[3] + b[3] + (s2 \div Limb)
        s4 == a[4] + b[4] + (s3 \div Limb)
    IN  <<s1 % Limb, s2 % Limb, s3 % Limb, s4 % Limb>>

\* struct obmm_mem_desc (libobmm.h:34)
Desc(seid, deid, scna, dcna) ==
    [addr |-> 0, length |-> Zero64, seid |-> seid, deid |-> deid, tokenid |-> 0,
     scna |-> scna, dcna |-> dcna, priv_len |-> 0]

\* struct obmm_preimport_info (libobmm.h:47)
PreimportInfo(seid, scna, base_dist) ==
    [pa |-> 4096, length |-> 4096, base_dist |-> base_dist,
     numa_id |-> NUMA_NO_NODE, seid |-> seid, deid |-> Eid(2, 0),
     scna |-> scna, dcna |-> 0, priv_len |-> 0]

NoCmd == [kind |-> "none"]

\* the result of a call: its return value, the errno it leaves, the process
\* state it leaves, the I/O it did, the command it sent, the device's reply
\* to it, and the caller memory (w) it could write
Result(ret, e, fd, tbl, hp, tr, cmd, dev, w) ==
    [ret |-> ret, errno |-> e, fd |-> fd, tbl |-> tbl, heap |-> hp,
     trace |-> tr, cmd |-> cmd, dev |-> dev, w |-> w]

\* a return before obmm_dev_get_fd
Early(ret, e, p, w) ==
    Result(ret, e, p.fd, p.tbl, p.heap, << >>, NoCmd, NoReply, w)

\* errno after ioctl(2) answered dev
AfterIoctl(e, dev) == IF dev.ok THEN e ELSE dev.err

\* the value ioctl(2) returns
IoctlRet(dev) == IF dev.ok THEN 0 ELSE -1

\* faulty variant: only the first entry is counted (C12 depends on the loop
\* over all entries)
SumFirstOnly(length, i, acc) == length[1]

\* libobmm.c:185-187  desc->length = 0; for (...) desc->length += length[i]
RECURSIVE SumFrom(_, _, _)
SumFrom(length, i, acc) ==
    IF i > Len(length) THEN acc
    ELSE SumFrom(length, i + 1, Add64(acc, length[i]))

----------------------------------------------------------------------------
(* Export *)

\* faulty variant: the channel numbers of the descriptor are left as they
\* were (C13 as amended depends on their being cleared)
export_useraddr_keeps_cna(pid, va, length, flags, desc, env, g, a) ==
    IF a.ret # ENONE
    THEN Result(OBMM_INVALID_MEMID, a.ret, g.fd, g.tbl, a.heap,
                g.trace \o a.trace, NoCmd, NoReply, [desc |-> desc])
    ELSE
    LET cmd == [kind |-> "OBMM_CMD_EXPORT_PID", va |-> va, length |-> length,
                pid |-> pid, flags |-> flags, priv_len |-> desc.v.priv_len,
                deid |-> desc.v.deid, vendor_info |-> a.ptr,
                vendor |-> a.info, pxm_numa |-> a.numa]
        f   == free_vendor_info(a.ptr, a.heap, env, AfterIoctl(g.errno, env.dev))
        tr  == g.trace \o a.trace \o <<EvIoctl("OBMM_CMD_EXPORT_PID", a.ptr)>>
                 \o f.trace
    IN
    IF IoctlRet(env.dev) < 0
    THEN Result(OBMM_INVALID_MEMID, f.errno, g.fd, g.tbl, f.heap, tr, cmd,
                env.dev, [desc |-> desc])
    ELSE Result(env.dev.mem_id, f.errno, g.fd, g.tbl, f.heap, tr, cmd, env.dev,
                [desc |-> Ptr([desc.v EXCEPT !.addr = env.dev.uba,
                                             !.length = length,
                                             !.tokenid = env.dev.tokenid])])

\* libobmm.c:124-139  after vendor_adapt_export returned a
export_useraddr_adapted(pid, va, length, flags, desc, env, g, a) ==
    IF a.ret # ENONE
    THEN Result(OBMM_INVALID_MEMID, a.ret, g.fd, g.tbl, a.heap,
                g.trace \o a.trace, NoCmd, NoReply, [desc |-> desc])
    ELSE
    LET cmd == [kind |-> "OBMM_CMD_EXPORT_PID", va |-> va, length |-> length,
                pid |-> pid, flags |-> flags, priv_len |-> desc.v.priv_len,
                deid |-> desc.v.deid, vendor_info |-> a.ptr,
                vendor |-> a.info, pxm_numa |-> a.numa]
        f   == free_vendor_info(a.ptr, a.heap, env, AfterIoctl(g.errno, env.dev))
        tr  == g.trace \o a.trace \o <<EvIoctl("OBMM_CMD_EXPORT_PID", a.ptr)>>
                 \o f.trace
    IN
    IF IoctlRet(env.dev) < 0
    THEN Result(OBMM_INVALID_MEMID, f.errno, g.fd, g.tbl, f.heap, tr, cmd,
                env.dev, [desc |-> desc])
    ELSE Result(env.dev.mem_id, f.errno, g.fd, g.tbl, f.heap, tr, cmd, env.dev,
                [desc |-> Ptr([desc.v EXCEPT !.addr = env.dev.uba,
                                             !.length = length,
                                             !.tokenid = env.dev.tokenid,
                                             !.scna = 0, !.dcna = 0])])

\* libobmm.c:111-123  after obmm_dev_get_fd returned g
export_useraddr_fd(pid, va, length, flags, desc, p, env, mask, g) ==
    IF g.ret < 0
    THEN Result(OBMM_INVALID_MEMID, g.errno, g.fd, g.tbl, p.heap, g.trace,
                NoCmd, NoReply, [desc |-> desc])
    ELSE export_useraddr_adapted(pid, va, length, flags, desc, env, g,
            vendor_adapt_export(p.fs, desc.v, p.heap, env, mask))

\* libobmm.c:99
obmm_export_useraddr(pid, va, length, flags, desc, p, env, mask) ==
    IF desc.null THEN Early(OBMM_INVALID_MEMID, EINVAL, p, [desc |-> desc])
    ELSE export_useraddr_fd(pid, va, length, flags, desc, p, env, mask,
                            obmm_dev_get_fd(p))

\* faulty variant: the descriptor is filled in from the command before the
\* result of the device transaction is looked at (C22 depends on the order)
export_adapted_early_write(length, flags, desc, env, g, a) ==
    IF a.ret # ENONE
    THEN Result(OBMM_INVALID_MEMID, a.ret, g.fd, g.tbl, a.heap,
                g.trace \o a.trace, NoCmd, NoReply, [desc |-> desc])
    ELSE
    LET cmd == [kind |-> "OBMM_CMD_EXPORT", size |-> length.v,
                length |-> OBMM_MAX_LOCAL_NUMA_NODES, flags |-> flags,
                priv_len |-> desc.v.priv_len, deid |-> desc.v.deid,
                vendor_info |-> a.ptr, vendor |-> a.info,
                pxm_numa |-> a.numa]
        errsv1 == AfterIoctl(g.errno, env.dev)
        f   == free_vendor_info(a.ptr, a.heap, env, errsv1)
        tr  == g.trace \o a.trace \o <<EvIoctl("OBMM_CMD_EXPORT", a.ptr)>>
                 \o f.trace
        written == Ptr([desc.v EXCEPT !.addr = env.dev.uba,
                                      !.tokenid = env.dev.tokenid,
                                      !.scna = 0, !.dcna = 0,
                                      !.length = SumFrom(length.v, 1, Zero64)])
    IN
    IF IoctlRet(env.dev) < 0
    THEN Result(OBMM_INVALID_MEMID, errsv1, g.fd, g.tbl, f.heap, tr, cmd,
                env.dev, [desc |-> written])
    ELSE Result(env.dev.mem_id, errsv1, g.fd, g.tbl, f.heap, tr, cmd, env.dev,
                [desc |-> written])

\* libobmm.c:167-189  after vendor_adapt_export returned a
export_adapted(length, flags, desc, env, g, a) ==
    IF a.ret # ENONE
    THEN Result(OBMM_INVALID_MEMID, a.ret, g.fd, g.tbl, a.heap,
                g.trace \o a.trace, NoCmd, NoReply, [desc |-> desc])
    ELSE
    LET cmd == [kind |-> "OBMM_CMD_EXPORT", size |-> length.v,
                length |-> OBMM_MAX_LOCAL_NUMA_NODES, flags |-> flags,
                priv_len |-> desc.v.priv_len, deid |-> desc.v.deid,
                vendor_info |-> a.ptr, vendor |-> a.info,
                pxm_numa |-> a.numa]
        errsv1 == AfterIoctl(g.errno, env.dev)
        f   == free_vendor_info(a.ptr, a.heap, env, errsv1)
        tr  == g.trace \o a.trace \o <<EvIoctl("OBMM_CMD_EXPORT", a.ptr)>>
                 \o f.trace
    IN
    IF IoctlRet(env.dev) < 0
    THEN Result(OBMM_INVALID_MEMID, errsv1, g.fd, g.tbl, f.heap, tr, cmd,
                env.dev, [desc |-> desc])
    ELSE Result(env.dev.mem_id, errsv1, g.fd, g.tbl, f.heap, tr, cmd, env.dev,
                [desc |-> Ptr([desc.v EXCEPT !.addr = env.dev.uba,
                                             !.tokenid = env.dev.tokenid,
                                             !.scna = 0, !.dcna = 0,
                                             !.length = SumFrom(length.v, 1, Zero64)])])

\* libobmm.c:155-166  after obmm_dev_get_fd returned g
export_fd(length, flags, desc, p, env, mask, g) ==
    IF g.ret < 0
    THEN Result(OBMM_INVALID_MEMID, g.errno, g.fd, g.tbl, p.heap, g.trace,
                NoCmd, NoReply, [desc |-> desc])
    ELSE export_adapted(length, flags, desc, env, g,
            vendor_adapt_export(p.fs, desc.v, p.heap, env, mask))

\* libobmm.c:142
obmm_export(length, flags, desc, p, env, mask) ==
    IF length.null \/ desc.null
    THEN Early(OBMM_INVALID_MEMID, EINVAL, p, [desc |-> desc])
    ELSE export_fd(length, flags, desc, p, env, mask, obmm_dev_get_fd(p))

----------------------------------------------------------------------------
(* Import and preimport *)

\* libobmm.c:192
fill_import_cmd_info(desc, flags, base_dist) ==
    [kind |-> "OBMM_CMD_IMPORT", addr |-> desc.addr, length |-> desc.length,
     tokenid |-> desc.tokenid, scna |-> desc.scna, dcna |-> desc.dcna,
     priv_len |-> desc.priv_len, flags |-> flags, base_dist |-> base_dist,
     deid |-> desc.deid, seid |-> desc.seid, mem_id |-> 0, numa_id |-> 0]

\* faulty variant: a channel mismatch is let through (C1 depends on the check)
import_cna_unchecked(cmd, c) ==
    IF c.ret # 0 THEN [ret |-> c.ret, errno |-> c.errno, trace |-> c.trace]
    ELSE [ret |-> 0, errno |-> ENONE, trace |-> c.trace]

\* vendor_adaptor.c:260-268  the channel check of vendor_fixup_import_cmd
import_cna_check(cmd, c) ==
    IF c.ret # 0 THEN [ret |-> c.ret, errno |-> c.errno, trace |-> c.trace]
    ELSE IF c.cna # cmd.scna
    THEN [ret |-> -1, errno |-> ENODEV, trace |-> c.trace]
    ELSE [ret |-> 0, errno |-> ENONE, trace |-> c.trace]

\* vendor_adaptor.c:256
vendor_fixup_import_cmd(fs, cmd) ==
    import_cna_check(cmd, get_primary_cna_by_eid(fs, cmd.seid))

\* faulty variant: DeclarePreimport lets a channel mismatch through, which
\* Import rejects (C4 depends on the check)
preimport_cna_unchecked(cmd, c) ==
    IF c.ret # 0 THEN [ret |-> c.ret, errno |-> c.errno, trace |-> c.trace]
    ELSE [ret |-> 0, errno |-> ENONE, trace |-> c.trace]

\* vendor_adaptor.c:279-287  the channel check of vendor_fixup_preimport_cmd
preimport_cna_check(cmd, c) ==
    IF c.ret # 0 THEN [ret |-> c.ret, errno |-> c.errno, trace |-> c.trace]
    ELSE IF c.cna # cmd.scna
    THEN [ret |-> -1, errno |-> ENODEV, trace |-> c.trace]
    ELSE [ret |-> 0, errno |-> ENONE, trace |-> c.trace]

\* vendor_adaptor.c:275
vendor_fixup_preimport_cmd(fs, cmd) ==
    preimport_cna_check(cmd, get_primary_cna_by_eid(fs, cmd.seid))

\* faulty variant: only the upper end of the range is checked (C2 depends on
\* both ends)
import_base_dist_upper_only(flags, base_dist) ==
    /\ OBMM_IMPORT_FLAG_NUMA_REMOTE \in flags
    /\ OBMM_IMPORT_FLAG_PREIMPORT \notin flags
    /\ base_dist > UINT8_MAX

\* libobmm.c:222-223  the base distance check of obmm_import
import_base_dist_bad(flags, base_dist) ==
    /\ OBMM_IMPORT_FLAG_NUMA_REMOTE \in flags
    /\ OBMM_IMPORT_FLAG_PREIMPORT \notin flags
    /\ (base_dist < 0 \/ base_dist > UINT8_MAX)

\* libobmm.c:334  the base distance check of obmm_preimport
preimport_base_dist_bad(flags, base_dist) ==
    base_dist < 0 \/ base_dist > UINT8_MAX

\* faulty variant: the NUMA id of the reply is copied to the caller's hint
\* whatever the device transaction returned (C21 depends on the copy being
\* made on success only)
import_fixed_numa_always(desc, numa, p, env, cmd, g, x) ==
    IF x.ret # 0
    THEN Result(OBMM_INVALID_MEMID, x.errno, g.fd, g.tbl, p.heap,
                g.trace \o x.trace, NoCmd, NoReply,
                [desc |-> desc, numa |-> numa])
    ELSE
    LET errsv1 == AfterIoctl(g.errno, env.dev)
        tr    == g.trace \o x.trace \o <<EvIoctl("OBMM_CMD_IMPORT", NoPayload)>>
        out   == IF ~numa.null THEN Ptr(env.dev.numa_id) ELSE numa
    IN
    IF IoctlRet(env.dev) < 0
    THEN Result(OBMM_INVALID_MEMID, errsv1, g.fd, g.tbl, p.heap, tr, cmd,
                env.dev, [desc |-> desc, numa |-> out])
    ELSE Result(env.dev.mem_id, errsv1, g.fd, g.tbl, p.heap, tr, cmd, env.dev,
                [desc |-> desc, numa |-> out])

\* libobmm.c:241-256  after vendor_fixup_import_cmd returned x
import_fixed(desc, numa, p, env, cmd, g, x) ==
    IF x.ret # 0
    THEN Result(OBMM_INVALID_MEMID, x.errno, g.fd, g.tbl, p.heap,
                g.trace \o x.trace, NoCmd, NoReply,
                [desc |-> desc, numa |-> numa])
    ELSE
    LET errsv1 == AfterIoctl(g.errno, env.dev)
        tr    == g.trace \o x.trace \o <<EvIoctl("OBMM_CMD_IMPORT", NoPayload)>>
    IN
    IF IoctlRet(env.dev) < 0
    THEN Result(OBMM_INVALID_MEMID, errsv1, g.fd, g.tbl, p.heap, tr, cmd,
                env.dev, [desc |-> desc, numa |-> numa])
    ELSE Result(env.dev.mem_id, errsv1, g.fd, g.tbl, p.heap, tr, cmd, env.dev,
                [desc |-> desc,
                 numa |-> IF ~numa.null THEN Ptr(env.dev.numa_id) ELSE numa])

\* libobmm.c:237-240  after obmm_dev_get_fd returned g
import_fd(desc, numa, p, env, cmd, g) ==
    IF g.ret < 0
    THEN Result(OBMM_INVALID_MEMID, g.errno, g.fd, g.tbl, p.heap, g.trace,
                NoCmd, NoReply, [desc |-> desc, numa |-> numa])
    ELSE import_fixed(desc, numa, p, env, cmd, g,
                      vendor_fixup_import_cmd(p.fs, cmd))

\* libobmm.c:210
obmm_import(desc, flags, base_dist, numa, p, env) ==
    IF desc.null
    THEN Early(OBMM_INVALID_MEMID, EINVAL, p, [desc |-> desc, numa |-> numa])
    ELSE IF import_base_dist_bad(flags, base_dist)
    THEN Early(OBMM_INVALID_MEMID, EINVAL, p, [desc |-> desc, numa |-> numa])
    ELSE import_fd(desc, numa, p, env,
                   [fill_import_cmd_info(desc.v, flags, base_dist) EXCEPT
                      !.mem_id = 0,
                      !.numa_id = IF ~numa.null THEN numa.v ELSE NUMA_NO_NODE],
                   obmm_dev_get_fd(p))

\* libobmm.c:343-353 and 385-395  the command built from a preimport info
preimport_cmd(kind, info, flags) ==
    [kind |-> kind, pa |-> info.pa, length |-> info.length,
     base_dist |-> info.base_dist, numa_id |-> info.numa_id,
     scna |-> info.scna, dcna |-> info.dcna, priv_len |-> info.priv_len,
     flags |-> flags, deid |-> info.deid, seid |-> info.seid]

\* libobmm.c:356-367  after vendor_fixup_preimport_cmd returned x
preimport_fixed(preimport_info, p, env, cmd, g, x) ==
    IF x.ret # 0
    THEN Result(x.ret, x.errno, g.fd, g.tbl, p.heap, g.trace \o x.trace,
                NoCmd, NoReply, [info |-> preimport_info])
    ELSE
    LET errsv1 == AfterIoctl(g.errno, env.dev)
        tr    == g.trace \o x.trace
                   \o <<EvIoctl("OBMM_CMD_DECLARE_PREIMPORT", NoPayload)>>
    IN
    IF IoctlRet(env.dev) < 0
    THEN Result(IoctlRet(env.dev), errsv1, g.fd, g.tbl, p.heap, tr, cmd,
                env.dev, [info |-> preimport_info])
    ELSE Result(0, errsv1, g.fd, g.tbl, p.heap, tr, cmd, env.dev,
                [info |-> Ptr([preimport_info.v EXCEPT
                                 !.numa_id = env.dev.numa_id])])

\* libobmm.c:340-355  after obmm_dev_get_fd returned g
preimport_fd(preimport_info, flags, p, env, cmd, g) ==
    IF g.ret < 0
    THEN Result(g.ret, g.errno, g.fd, g.tbl, p.heap, g.trace, NoCmd, NoReply,
                [info |-> preimport_info])
    ELSE preimport_fixed(preimport_info, p, env, cmd, g,
                         vendor_fixup_preimport_cmd(p.fs, cmd))

\* faulty variant: the device handle is asked for before the range check
\* (C7 depends on the order)
obmm_preimport_late_check(preimport_info, flags, p, env) ==
    IF preimport_info.null THEN Early(-1, EINVAL, p, [info |-> preimport_info])
    ELSE
    LET g == obmm_dev_get_fd(p) IN
    IF preimport_base_dist_bad(flags, preimport_info.v.base_dist)
    THEN Result(-1, EINVAL, g.fd, g.tbl, p.heap, g.trace, NoCmd, NoReply,
                [info |-> preimport_info])
    ELSE preimport_fd(preimport_info, flags, p, env,
                      preimport_cmd("OBMM_CMD_DECLARE_PREIMPORT",
                                    preimport_info.v, flags), g)

\* libobmm.c:323
obmm_preimport(preimport_info, flags, p, env) ==
    IF preimport_info.null THEN Early(-1, EINVAL, p, [info |-> preimport_info])
    ELSE IF preimport_base_dist_bad(flags, preimport_info.v.base_dist)
    THEN Early(-1, EINVAL, p, [info |-> preimport_info])
    ELSE preimport_fd(preimport_info, flags, p, env,
                      preimport_cmd("OBMM_CMD_DECLARE_PREIMPORT",
                                    preimport_info.v, flags),
                      obmm_dev_get_fd(p))

\* faulty variant: UndeclarePreimport validates as DeclarePreimport does (C3
\* as amended depends on it not doing so)
obmm_unpreimport_validating(preimport_info, flags, p, env) ==
    IF preimport_info.null THEN Early(-1, EINVAL, p, [info |-> preimport_info])
    ELSE IF preimport_base_dist_bad(flags, preimport_info.v.base_dist)
    THEN Early(-1, EINVAL, p, [info |-> preimport_info])
    ELSE preimport_fd(preimport_info, flags, p, env,
                      preimport_cmd("OBMM_CMD_UNDECLARE_PREIMPORT",
                                    preimport_info.v, flags),
                      obmm_dev_get_fd(p))

\* libobmm.c:370
obmm_unpreimport(preimport_info, flags, p, env) ==
    LET w == [info |-> preimport_info] IN
    IF preimport_info.null THEN Early(-1, EINVAL, p, w)
    ELSE
    LET g == obmm_dev_get_fd(p) IN
    IF g.ret < 0
    THEN Result(g.ret, g.errno, g.fd, g.tbl, p.heap, g.trace, NoCmd, NoReply, w)
    ELSE
    LET cmd == preimport_cmd("OBMM_CMD_UNDECLARE_PREIMPORT", preimport_info.v,
                             flags)
    IN  Result(IoctlRet(env.dev), AfterIoctl(g.errno, env.dev), g.fd, g.tbl,
               p.heap, g.trace \o <<EvIoctl(cmd.kind, NoPayload)>>, cmd,
               env.dev, w)

----------------------------------------------------------------------------
(* Tear down, ownership, address queries *)

\* faulty variant: the sentinel is not checked (C5 depends on the check)
obmm_unexport_unguarded(id, flags, p, env) ==
    LET g   == obmm_dev_get_fd(p)
        cmd == [kind |-> "OBMM_CMD_UNEXPORT", mem_id |-> id, flags |-> flags]
    IN
    IF g.ret < 0
    THEN Result(g.ret, g.errno, g.fd, g.tbl, p.heap, g.trace, NoCmd, NoReply,
                [id |-> id])
    ELSE Result(IoctlRet(env.dev), AfterIoctl(g.errno, env.dev), g.fd, g.tbl,
                p.heap, g.trace \o <<EvIoctl("OBMM_CMD_UNEXPORT", NoPayload)>>,
                cmd, env.dev, [id |-> id])

\* libobmm.c:259
obmm_unexport(id, flags, p, env) ==
    IF id = OBMM_INVALID_MEMID THEN Early(-1, EINVAL, p, [id |-> id])
    ELSE
    LET g   == obmm_dev_get_fd(p)
        cmd == [kind |-> "OBMM_CMD_UNEXPORT", mem_id |-> id, flags |-> flags]
    IN
    IF g.ret < 0
    THEN Result(g.ret, g.errno, g.fd, g.tbl, p.heap, g.trace, NoCmd, NoReply,
                [id |-> id])
    ELSE Result(IoctlRet(env.dev), AfterIoctl(g.errno, env.dev), g.fd, g.tbl,
                p.heap, g.trace \o <<EvIoctl("OBMM_CMD_UNEXPORT", NoPayload)>>,
                cmd, env.dev, [id |-> id])

\* libobmm.c:279
obmm_unimport(id, flags, p, env) ==
    IF id = OBMM_INVALID_MEMID THEN Early(-1, EINVAL, p, [id |-> id])
    ELSE
    LET g   == obmm_dev_get_fd(p)
        cmd == [kind |-> "OBMM_CMD_UNIMPORT", mem_id |-> id, flags |-> flags]
    IN
    IF g.ret < 0
    THEN Result(g.ret, g.errno, g.fd, g.tbl, p.heap, g.trace, NoCmd, NoReply,
                [id |-> id])
    ELSE Result(IoctlRet(env.dev), AfterIoctl(g.errno, env.dev), g.fd, g.tbl,
                p.heap, g.trace \o <<EvIoctl("OBMM_CMD_UNIMPORT", NoPayload)>>,
                cmd, env.dev, [id |-> id])

\* faulty variant: write without read is not accepted (C14 depends on write
\* implying read)
mem_attr_strict(prot) ==
    IF prot = PROT_NONE
    THEN {"OBMM_SHM_MEM_NORMAL_NC", "OBMM_SHM_MEM_NO_ACCESS"}
    ELSE IF prot = PROT_READ
    THEN {"OBMM_SHM_MEM_NORMAL", "OBMM_SHM_MEM_READONLY"}
    ELSE IF prot = PROT_READ + PROT_WRITE
    THEN {"OBMM_SHM_MEM_NORMAL", "OBMM_SHM_MEM_READWRITE"}
    ELSE {}

\* libobmm.c:304-313  the page state of a protection value ({}: rejected)
mem_attr(prot) ==
    IF prot = PROT_NONE
    THEN {"OBMM_SHM_MEM_NORMAL_NC", "OBMM_SHM_MEM_NO_ACCESS"}
    ELSE IF prot = PROT_READ
    THEN {"OBMM_SHM_MEM_NORMAL", "OBMM_SHM_MEM_READONLY"}
    ELSE IF prot = PROT_WRITE \/ prot = PROT_READ + PROT_WRITE
    THEN {"OBMM_SHM_MEM_NORMAL", "OBMM_SHM_MEM_READWRITE"}
    ELSE {}

\* libobmm.c:299
obmm_set_ownership(fd, start, end, prot, p, env) ==
    LET w == [prot |-> prot] IN
    IF mem_attr(prot) = {} THEN Early(-1, EINVAL, p, w)
    ELSE
    LET update_info == [kind |-> "OBMM_SHMDEV_UPDATE_RANGE", fd |-> fd,
                        start |-> start, end |-> end,
                        mem_state |-> mem_attr(prot),
                        cache_ops |-> "OBMM_SHM_CACHE_INFER"]
    IN  Result(IoctlRet(env.dev), AfterIoctl(p.errno, env.dev), p.fd, p.tbl,
               p.heap, <<EvIoctl(update_info.kind, NoPayload)>>, update_info,
               env.dev, w)

\* libobmm.c:55
obmm_query_memid_by_pa(pa, id, offset, p, env) ==
    LET w == [id |-> id, offset |-> offset]
        g == obmm_dev_get_fd(p)
    IN
    IF g.ret < 0
    THEN Result(g.ret, g.errno, g.fd, g.tbl, p.heap, g.trace, NoCmd, NoReply, w)
    ELSE
    LET cmd == [kind |-> "OBMM_CMD_ADDR_QUERY",
                key_type |-> "OBMM_QUERY_BY_PA", pa |-> pa, mem_id |-> 0,
                offset |-> 0]
        tr  == g.trace \o <<EvIoctl(cmd.kind, NoPayload)>>
        e   == AfterIoctl(g.errno, env.dev)
    IN
    IF IoctlRet(env.dev) < 0
    THEN Result(IoctlRet(env.dev), e, g.fd, g.tbl, p.heap, tr, cmd, env.dev, w)
    ELSE Result(0, e, g.fd, g.tbl, p.heap, tr, cmd, env.dev,
                [id |-> IF ~id.null THEN Ptr(env.dev.mem_id) ELSE id,
                 offset |-> IF ~offset.null THEN Ptr(env.dev.offset)
                            ELSE offset])

\* faulty variant: the offset argument is not put in the request (C16
\* depends on mem_id and offset both being forwarded)
obmm_query_pa_drops_offset(id, offset, pa, p, env) ==
    LET w == [pa |-> pa]
        g == obmm_dev_get_fd(p)
    IN
    IF g.ret < 0
    THEN Result(g.ret, g.errno, g.fd, g.tbl, p.heap, g.trace, NoCmd, NoReply, w)
    ELSE
    LET cmd == [kind |-> "OBMM_CMD_ADDR_QUERY",
                key_type |-> "OBMM_QUERY_BY_ID_OFFSET", pa |-> 0,
                mem_id |-> id, offset |-> 0]
        tr  == g.trace \o <<EvIoctl(cmd.kind, NoPayload)>>
        e   == AfterIoctl(g.errno, env.dev)
    IN
    IF IoctlRet(env.dev) < 0
    THEN Result(IoctlRet(env.dev), e, g.fd, g.tbl, p.heap, tr, cmd, env.dev, w)
    ELSE Result(0, e, g.fd, g.tbl, p.heap, tr, cmd, env.dev,
                [pa |-> IF ~pa.null THEN Ptr(env.dev.pa) ELSE pa])

\* libobmm.c:78
obmm_query_pa_by_memid(id, offset, pa, p, env) ==
    LET w == [pa |-> pa]
        g == obmm_dev_get_fd(p)
    IN
    IF g.ret < 0
    THEN Result(g.ret, g.errno, g.fd, g.tbl, p.heap, g.trace, NoCmd, NoReply, w)
    ELSE
    LET cmd == [kind |-> "OBMM_CMD_ADDR_QUERY",
                key_type |-> "OBMM_QUERY_BY_ID_OFFSET", pa |-> 0,
                mem_id |-> id, offset |-> offset]
        tr  == g.trace \o <<EvIoctl(cmd.kind, NoPayload)>>
        e   == AfterIoctl(g.errno, env.dev)
    IN
    IF IoctlRet(env.dev) < 0
    THEN Result(IoctlRet(env.dev), e, g.fd, g.tbl, p.heap, tr, cmd, env.dev, w)
    ELSE Result(0, e, g.fd, g.tbl, p.heap, tr, cmd, env.dev,
                [pa |-> IF ~pa.null THEN Ptr(env.dev.pa) ELSE pa])

----------------------------------------------------------------------------
(* The device's side of an address query, for one live exported region:    *)
(* mem_id DevOk.mem_id occupies the physical addresses Region.  The device *)
(* is not part of the library; this is what the library's callers are told *)
(* it does.                                                                *)

RegionBase == DevOk.pa - DevOk.offset

Region == RegionBase .. (RegionBase + 4095)

AddrQueryReply(cmd) ==
    IF cmd.key_type = "OBMM_QUERY_BY_PA"
    THEN IF cmd.pa \in Region
         THEN [DevOk EXCEPT !.pa = cmd.pa, !.offset = cmd.pa - RegionBase]
         ELSE DevFail("ENOENT")
    ELSE IF cmd.mem_id = DevOk.mem_id /\ RegionBase + cmd.offset \in Region
         THEN [DevOk EXCEPT !.pa = RegionBase + cmd.offset,
                            !.offset = cmd.offset]
         ELSE DevFail("ENOENT")

\* an environment whose device gives reply dev
EnvReplying(dev) ==
    [allocOk |-> TRUE, fits |-> TRUE, freeErr |-> Keep, dev |-> dev]

\* libobmm.c:55-76 against the device above: the request does not depend on
\* the reply, so it is taken from a first evaluation
query_memid_by_pa_live(pa, id, offset, p) ==
    obmm_query_memid_by_pa(pa, id, offset, p,
        EnvReplying(AddrQueryReply(
            obmm_query_memid_by_pa(pa, id, offset, p, EnvReplying(DevOk)).cmd)))

\* libobmm.c:78-97 against the device above
query_pa_by_memid_live(id, offset, pa, p) ==
    obmm_query_pa_by_memid(id, offset, pa, p,
        EnvReplying(AddrQueryReply(
            obmm_query_pa_by_memid(id, offset, pa, p, EnvReplying(DevOk)).cmd)))

----------------------------------------------------------------------------
(* The arguments callers pass *)

EidArgs == { g_invalid_eid, Eid(1, 0), Eid(2, 0), Eid(1, 1), Eid(INT_MIN, 0) }

CnaArgs == { 0, 1 }

FlagWords == SUBSET { OBMM_IMPORT_FLAG_NUMA_REMOTE, OBMM_IMPORT_FLAG_PREIMPORT }

BaseDists == { -1, 0, UINT8_MAX, UINT8_MAX + 1 }

ExportDescs ==
    { NullPtr(Desc(Eid(1, 0), Eid(1, 0), 3, 4)) } \cup
    { Ptr(Desc(Eid(1, 0), d, 3, 4)) : d \in EidArgs }

\* source endpoint ids: two controllers' and one no controller can have
SeidArgs == { Eid(1, 0), Eid(2, 0), Eid(1, 1) }

ImportDescs ==
    { NullPtr(Desc(Eid(1, 0), Eid(2, 0), 0, 0)) } \cup
    { Ptr(Desc(s, Eid(2, 0), c, 0)) : s \in SeidArgs, c \in CnaArgs }

PreimportInfos ==
    { NullPtr(PreimportInfo(Eid(1, 0), 0, 0)) } \cup
    { Ptr(PreimportInfo(s, c, b)) : s \in SeidArgs, c \in CnaArgs, b \in BaseDists }

UnpreimportFlags == { {}, {OBMM_IMPORT_FLAG_NUMA_REMOTE} }

NumaHints == { NullPtr(0), Ptr(0) }

LenVectors ==
    { NullPtr([i \in 1 .. OBMM_MAX_LOCAL_NUMA_NODES |-> Zero64]) } \cup
    { Ptr(v) : v \in [1 .. OBMM_MAX_LOCAL_NUMA_NODES ->
                        {Zero64, U64(4096), Top64}] }

MemIds == { OBMM_INVALID_MEMID, 7, 9 }

Prots == 0 .. 4

OutPtrs == { NullPtr(0), Ptr(0) }

CallerErrnos == { ENONE, "ESTALE" }

\* the environments of a call that builds no vendor payload
DevEnvs == { e \in Envs : e.allocOk /\ e.fits /\ e.freeErr = Keep }

----------------------------------------------------------------------------
(* The sequential specification: one thread calls the API; the environment *)
(* changes sysfs and the device node between calls.                        *)

NoCall == [op |-> "none"]

Threads == 1 .. NThreads

Init ==
    /\ obmm_dev_fd = -1
    /\ errno = ENONE
    /\ heap = 0
    /\ fdtable = {}
    /\ sysfs = [i \in Slots |-> Absent]
    /\ devnode = FALSE
    /\ last = NoCall
    /\ mtx = 0
    /\ pc = [t \in Threads |-> "idle"]
    /\ seen = [t \in Threads |-> -1]
    /\ errsv = [t \in Threads |-> ENONE]
    /\ tret = [t \in Threads |-> -1]
    /\ terrno = [t \in Threads |-> ENONE]

\* the call op(in) ran to completion with result o
Returns(op, in, o) ==
    /\ last' = [op |-> op, in |-> in, out |-> o,
                p |-> [fd |-> obmm_dev_fd, tbl |-> fdtable, errno |-> errno,
                       heap |-> heap]]
    /\ obmm_dev_fd' = o.fd
    /\ fdtable' = o.tbl
    /\ errno' = o.errno
    /\ heap' = o.heap
    /\ UNCHANGED <<sysfs, devnode, mtVars>>

Idle == last = NoCall /\ heap <= MaxLive /\ Cardinality(fdtable) <= MaxOpens

Export ==
    /\ Idle
    /\ \E length \in LenVectors, desc \in ExportDescs, env \in Envs :
       \E mask \in MaskOutcomes(MappingOf(sysfs, desc)) :
          Returns("obmm_export",
                  [length |-> length, flags |-> 0, desc |-> desc],
                  obmm_export(length, 0, desc, Proc, env, mask))

ExportByAddress ==
    /\ Idle
    /\ \E desc \in ExportDescs, env \in Envs :
       \E mask \in MaskOutcomes(MappingOf(sysfs, desc)) :
          Returns("obmm_export_useraddr",
                  [pid |-> 0, va |-> 65536, length |-> U64(4096), flags |-> 0,
                   desc |-> desc],
                  obmm_export_useraddr(0, 65536, U64(4096), 0, desc, Proc, env,
                                       mask))

Import ==
    /\ Idle
    /\ \E desc \in ImportDescs, flags \in FlagWords, base_dist \in BaseDists,
          numa \in NumaHints, env \in DevEnvs :
          Returns("obmm_import",
                  [desc |-> desc, flags |-> flags, base_dist |-> base_dist,
                   numa |-> numa],
                  obmm_import(desc, flags, base_dist, numa, Proc, env))

DeclarePreimport ==
    /\ Idle
    /\ \E info \in PreimportInfos, flags \in FlagWords, env \in DevEnvs :
          Returns("obmm_preimport", [info |-> info, flags |-> flags],
                  obmm_preimport(info, flags, Proc, env))

UndeclarePreimport ==
    /\ Idle
    /\ \E info \in PreimportInfos, flags \in UnpreimportFlags, env \in DevEnvs :
          Returns("obmm_unpreimport", [info |-> info, flags |-> flags],
                  obmm_unpreimport(info, flags, Proc, env))

Unexport ==
    /\ Idle
    /\ \E id \in MemIds, env \in DevEnvs :
          Returns("obmm_unexport", [id |-> id, flags |-> 0],
                  obmm_unexport(id, 0, Proc, env))

Unimport ==
    /\ Idle
    /\ \E id \in MemIds, env \in DevEnvs :
          Returns("obmm_unimport", [id |-> id, flags |-> 0],
                  obmm_unimport(id, 0, Proc, env))

SetOwnership ==
    /\ Idle
    /\ \E prot \in Prots, env \in DevEnvs :
          Returns("obmm_set_ownership",
                  [fd |-> 4, start |-> 0, end |-> 4096, prot |-> prot],
                  obmm_set_ownership(4, 0, 4096, prot, Proc, env))

QueryMemIdByPa ==
    /\ Idle
    /\ \E id \in OutPtrs, offset \in OutPtrs, env \in DevEnvs :
          Returns("obmm_query_memid_by_pa",
                  [pa |-> 12288, id |-> id, offset |-> offset],
                  obmm_query_memid_by_pa(12288, id, offset, Proc, env))

QueryPaByMemId ==
    /\ Idle
    /\ \E pa \in OutPtrs, env \in DevEnvs :
          Returns("obmm_query_pa_by_memid",
                  [id |-> 7, offset |-> 64, pa |-> pa],
                  obmm_query_pa_by_memid(7, 64, pa, Proc, env))

\* the caller has looked at the result and moves on; before its next call
\* errno is whatever the caller's own code left in it
Consume ==
    /\ last # NoCall
    /\ last' = NoCall
    /\ errno' \in CallerErrnos
    /\ UNCHANGED <<obmm_dev_fd, heap, sysfs, devnode, fdtable, mtVars>>

\* the environment rewrites a controller directory
SysfsChange ==
    /\ last = NoCall
    /\ \E i \in PopulatedSlots, pr \in Profiles :
          sysfs' = [sysfs EXCEPT ![i] = pr]
    /\ UNCHANGED <<obmm_dev_fd, errno, heap, devnode, last, fdtable, mtVars>>

\* the control device node appears or disappears
DevNodeChange ==
    /\ last = NoCall
    /\ devnode' = ~devnode
    /\ UNCHANGED <<obmm_dev_fd, errno, heap, sysfs, last, fdtable, mtVars>>

Next ==
    \/ Export
    \/ ExportByAddress
    \/ Import
    \/ DeclarePreimport
    \/ UndeclarePreimport
    \/ Unexport
    \/ Unimport
    \/ SetOwnership
    \/ QueryMemIdByPa
    \/ QueryPaByMemId
    \/ Consume
    \/ SysfsChange
    \/ DevNodeChange

Spec == Init /\ [][Next]_vars

----------------------------------------------------------------------------
(* The concurrent specification: NThreads threads run transactions; each   *)
(* transaction calls obmm_dev_get_fd (libobmm.c:38-53), whose statements   *)
(* interleave, and then issues its device call on the handle it got.       *)

\* a thread enters a transaction and obmm_dev_get_fd: int errsv = 0
Enter(t) ==
    /\ pc[t] = "idle"
    /\ pc' = [pc EXCEPT ![t] = "lock"]
    /\ errsv' = [errsv EXCEPT ![t] = ENONE]
    /\ UNCHANGED <<obmm_dev_fd, fdtable, devnode, seqVars, mtx, seen, tret,
                   terrno>>

\* libobmm.c:44  pthread_mutex_lock
Lock(t) ==
    /\ pc[t] = "lock"
    /\ mtx = 0
    /\ mtx' = t
    /\ pc' = [pc EXCEPT ![t] = "locked"]
    /\ UNCHANGED <<obmm_dev_fd, fdtable, devnode, seqVars, seen, errsv, tret,
                   terrno>>

\* libobmm.c:45-49  with the handle already open
AlreadyOpen(t) ==
    /\ pc[t] = "locked"
    /\ ~NeedOpen(obmm_dev_fd)
    /\ seen' = [seen EXCEPT ![t] = obmm_dev_fd]
    /\ pc' = [pc EXCEPT ![t] = "unlock"]
    /\ UNCHANGED <<obmm_dev_fd, fdtable, devnode, seqVars, mtx, errsv, tret,
                   terrno>>

\* libobmm.c:45-46  open() succeeds
OpenOk(t) ==
    /\ pc[t] = "locked"
    /\ NeedOpen(obmm_dev_fd)
    /\ devnode
    /\ Cardinality(fdtable) < MaxOpens
    /\ obmm_dev_fd' = NewFd(fdtable)
    /\ fdtable' = fdtable \cup {NewFd(fdtable)}
    /\ seen' = [seen EXCEPT ![t] = NewFd(fdtable)]
    /\ pc' = [pc EXCEPT ![t] = "unlock"]
    /\ UNCHANGED <<devnode, seqVars, mtx, errsv, tret, terrno>>

\* faulty variant: the failure path returns without unlocking (C19 depends
\* on the unlock being on every path)
OpenFailsKeepsLock(t) ==
    /\ pc[t] = "locked"
    /\ NeedOpen(obmm_dev_fd)
    /\ ~devnode
    /\ obmm_dev_fd' = -1
    /\ seen' = [seen EXCEPT ![t] = -1]
    /\ errsv' = [errsv EXCEPT ![t] = OpenErr]
    /\ pc' = [pc EXCEPT ![t] = "return"]
    /\ UNCHANGED <<fdtable, devnode, seqVars, mtx, tret, terrno>>

\* libobmm.c:45-48  open() fails: errsv = errno
OpenFails(t) ==
    /\ pc[t] = "locked"
    /\ NeedOpen(obmm_dev_fd)
    /\ ~devnode
    /\ obmm_dev_fd' = -1
    /\ seen' = [seen EXCEPT ![t] = -1]
    /\ errsv' = [errsv EXCEPT ![t] = OpenErr]
    /\ pc' = [pc EXCEPT ![t] = "unlock"]
    /\ UNCHANGED <<fdtable, devnode, seqVars, mtx, tret, terrno>>

\* libobmm.c:50  pthread_mutex_unlock
Unlock(t) ==
    /\ pc[t] = "unlock"
    /\ mtx = t
    /\ mtx' = 0
    /\ pc' = [pc EXCEPT ![t] = "return"]
    /\ UNCHANGED <<obmm_dev_fd, fdtable, devnode, seqVars, seen, errsv, tret,
                   terrno>>

\* libobmm.c:52  the read of obmm_dev_fd after the unlock races with another
\* thread's write at line 46: the value returned is the one the thread saw
\* under the lock (kept in a register) or the one in memory now
ReturnValues(t) == { seen[t], obmm_dev_fd }

\* libobmm.c:51-52  errno = errsv; return obmm_dev_fd
Return(t) ==
    /\ pc[t] = "return"
    /\ \E v \in ReturnValues(t) : tret' = [tret EXCEPT ![t] = v]
    /\ terrno' = [terrno EXCEPT ![t] = errsv[t]]
    /\ pc' = [pc EXCEPT ![t] = "got"]
    /\ UNCHANGED <<obmm_dev_fd, fdtable, devnode, seqVars, mtx, seen, errsv>>

\* the rest of the transaction: with no handle it fails at once; with a
\* handle it issues its ioctl, which succeeds or fails with the device's error
Transact(t) ==
    /\ pc[t] = "got"
    /\ \E dev \in DevReplies :
          terrno' = [terrno EXCEPT ![t] =
                        IF tret[t] < 0 THEN @ ELSE AfterIoctl(@, dev)]
    /\ pc' = [pc EXCEPT ![t] = "idle"]
    /\ UNCHANGED <<obmm_dev_fd, fdtable, devnode, seqVars, mtx, seen, errsv,
                   tret>>

\* the control device node appears or disappears while threads run
DevNodeFlip ==
    /\ devnode' = ~devnode
    /\ UNCHANGED <<obmm_dev_fd, fdtable, seqVars, mtVars>>

NextMT ==
    \/ \E t \in Threads : Enter(t)
    \/ \E t \in Threads : Lock(t)
    \/ \E t \in Threads : AlreadyOpen(t)
    \/ \E t \in Threads : OpenOk(t)
    \/ \E t \in Threads : OpenFails(t)
    \/ \E t \in Threads : Unlock(t)
    \/ \E t \in Threads : Return(t)
    \/ \E t \in Threads : Transact(t)
    \/ DevNodeFlip

SpecMT == Init /\ [][NextMT]_vars

\* libobmm.c:45-49  the step a thread takes under the lock, whichever way
\* the test and the open go
OpenStep(t) == AlreadyOpen(t) \/ OpenOk(t) \/ OpenFails(t)

\* The concurrent specification with scheduling: a thread that can take its
\* next statement inside obmm_dev_get_fd eventually takes it (open() returns,
\* threads are not suspended for ever), and a thread waiting for the mutex
\* gets it if the mutex keeps becoming free.  Starting a call, and finishing
\* the transaction after it, are left to the caller.
SpecMTFair ==
    /\ SpecMT
    /\ \A t \in Threads :
          /\ SF_vars(Lock(t))
          /\ WF_vars(OpenStep(t))
          /\ WF_vars(Unlock(t))
          /\ WF_vars(Return(t))

----------------------------------------------------------------------------
(* Reading the call that has just returned *)

Trace == last.out.trace

EventsOf(kind) == { k \in DOMAIN Trace : Trace[k].ev = kind }

Ioctls == EventsOf("ioctl")

IoctlsOf(cmd) == { k \in Ioctls : Trace[k].what = cmd }

\* accesses to the controller attribute directories
FsReads == EventsOf("glob") \cup EventsOf("read")

ReadsOf(attr) == { k \in EventsOf("read") : Trace[k].what = attr }

NoIoctlIn(tr) == \A k \in DOMAIN tr : tr[k].ev # "ioctl"

ExportOps == { "obmm_export", "obmm_export_useraddr" }

\* the value a call returns when it fails
Failed ==
    IF last.op \in ExportOps \cup {"obmm_import"}
    THEN last.out.ret = OBMM_INVALID_MEMID
    ELSE last.out.ret = -1

\* the process state the call that has just returned started from (sysfs and
\* the device node do not change while its result is being looked at)
ProcBefore == [fd |-> last.p.fd, tbl |-> last.p.tbl, errno |-> last.p.errno,
               heap |-> last.p.heap, node |-> devnode, fs |-> sysfs]

\* the call left the device handle as it found it
HandleUntouched == obmm_dev_fd = last.p.fd /\ fdtable = last.p.tbl

\* the device handle was available to the call
HandleObtained == last.out.fd >= 0

InRange(base_dist) == base_dist \in 0 .. 255

RemoteNoPreimport(flags) ==
    "NUMA_REMOTE" \in flags /\ "PREIMPORT" \notin flags

----------------------------------------------------------------------------
(* C1: Import, once it has read the primary channel number of the          *)
(* controller whose eid is the descriptor's source endpoint id: if that    *)
(* number differs from the descriptor's source channel number the call     *)
(* returns the invalid mem-id with errno ENODEV and issues no Import       *)
(* ioctl; if it is equal exactly one Import ioctl is issued.               *)

C1_ImportChannelGate ==
    last.op = "obmm_import" =>
        \A k \in ReadsOf("primary_cna") :
            LET ctl == sysfs[Trace[k].arg]
                d   == last.in.desc.v
            IN  /\ ctl.eid = File(d.seid.lo) /\ d.seid.rest = 0
                /\ (ctl.primary_cna.ok /\ ctl.primary_cna.val >= 0) =>
                     /\ ctl.primary_cna.val # d.scna =>
                          /\ last.out.ret = OBMM_INVALID_MEMID
                          /\ last.out.errno = ENODEV
                          /\ IoctlsOf("OBMM_CMD_IMPORT") = {}
                     /\ ctl.primary_cna.val = d.scna =>
                          Cardinality(IoctlsOf("OBMM_CMD_IMPORT")) = 1

C1_Witness ==
    /\ last.op = "obmm_import"
    /\ \E k \in ReadsOf("primary_cna") :
          /\ sysfs[Trace[k].arg].primary_cna.ok
          /\ sysfs[Trace[k].arg].primary_cna.val # last.in.desc.v.scna
    /\ last.out.errno = ENODEV
    /\ last.out.ret = OBMM_INVALID_MEMID

----------------------------------------------------------------------------
(* C2: Import and DeclarePreimport with NUMA-remote set, preimport unset   *)
(* and a base_distance outside [0,255] fail with EINVAL before touching    *)
(* the device: no open, no topology read, no ioctl.                        *)

C2_BaseDistBeforeDevice ==
    /\ ( /\ last.op = "obmm_import"
         /\ RemoteNoPreimport(last.in.flags)
         /\ ~InRange(last.in.base_dist) )
       => /\ last.out.ret = OBMM_INVALID_MEMID
          /\ last.out.errno = EINVAL
          /\ Trace = << >>
          /\ HandleUntouched
    /\ ( /\ last.op = "obmm_preimport"
         /\ ~last.in.info.null
         /\ RemoteNoPreimport(last.in.flags)
         /\ ~InRange(last.in.info.v.base_dist) )
       => /\ last.out.ret = -1
          /\ last.out.errno = EINVAL
          /\ Trace = << >>
          /\ HandleUntouched

C2_Witness ==
    /\ last.op = "obmm_preimport"
    /\ ~last.in.info.null
    /\ RemoteNoPreimport(last.in.flags)
    /\ last.in.info.v.base_dist = 256
    /\ devnode /\ last.p.fd < 0
    /\ last.out.errno = EINVAL

----------------------------------------------------------------------------
(* C3 (as claimed): UndeclarePreimport rejects, before its ioctl, a        *)
(* descriptor whose base_distance is out of range or whose source channel  *)
(* number disagrees with the live primary channel of its source eid.       *)

ChannelDisagrees(info) ==
    \E i \in Slots :
        /\ sysfs[i].path = "ok"
        /\ sysfs[i].eid = File(info.seid.lo) /\ info.seid.rest = 0
        /\ sysfs[i].primary_cna.ok
        /\ sysfs[i].primary_cna.val # info.scna

C3_Original ==
    ( /\ last.op = "obmm_unpreimport"
      /\ ~last.in.info.null
      /\ \/ ~InRange(last.in.info.v.base_dist)
         \/ ChannelDisagrees(last.in.info.v) )
    => IoctlsOf("OBMM_CMD_UNDECLARE_PREIMPORT") = {}

(* C3 (amended): UndeclarePreimport validates neither: with a non-null     *)
(* descriptor and the device handle obtained it reads no topology          *)
(* attribute and issues exactly one UndeclarePreimport ioctl carrying the  *)
(* descriptor's base_distance and channel number as given, and returns the *)
(* ioctl's result.                                                         *)

C3_UnpreimportUnvalidated ==
    ( /\ last.op = "obmm_unpreimport"
      /\ ~last.in.info.null
      /\ HandleObtained )
    => /\ FsReads = {}
       /\ Cardinality(IoctlsOf("OBMM_CMD_UNDECLARE_PREIMPORT")) = 1
       /\ last.out.cmd.base_dist = last.in.info.v.base_dist
       /\ last.out.cmd.scna = last.in.info.v.scna
       /\ last.out.ret = IoctlRet(last.out.dev)

C3_Witness ==
    /\ last.op = "obmm_unpreimport"
    /\ ~last.in.info.null
    /\ ~InRange(last.in.info.v.base_dist)
    /\ ChannelDisagrees(last.in.info.v)
    /\ IoctlsOf("OBMM_CMD_UNDECLARE_PREIMPORT") # {}
    /\ last.out.ret = 0

----------------------------------------------------------------------------
(* C4 (as claimed): DeclarePreimport is rejected before its ioctl exactly  *)
(* when Import with the same flags, base_distance, source eid, source      *)
(* channel number and topology is rejected before its ioctl.               *)

\* Import called with the values of the DeclarePreimport that just returned
ImportOfSame ==
    LET i == last.in.info.v IN
    obmm_import(Ptr(Desc(i.seid, i.deid, i.scna, i.dcna)), last.in.flags,
                i.base_dist, NullPtr(0), ProcBefore,
                CHOOSE e \in DevEnvs : e.dev.ok)

C4_Original ==
    (last.op = "obmm_preimport" /\ ~last.in.info.null)
    => (NoIoctlIn(Trace) <=> NoIoctlIn(ImportOfSame.trace))

(* C4 (amended): DeclarePreimport is rejected before its ioctl whenever    *)
(* Import with the same values is; it is also rejected when Import is not  *)
(* only for a base_distance outside [0,255] without (NUMA-remote set and   *)
(* preimport unset), because DeclarePreimport applies the range check      *)
(* under every flag combination.                                           *)

C4_PreimportAtLeastImport ==
    (last.op = "obmm_preimport" /\ ~last.in.info.null)
    => /\ NoIoctlIn(ImportOfSame.trace) => NoIoctlIn(Trace)
       /\ (NoIoctlIn(Trace) /\ ~NoIoctlIn(ImportOfSame.trace))
            => /\ ~InRange(last.in.info.v.base_dist)
               /\ ~RemoteNoPreimport(last.in.flags)
               /\ last.out.errno = EINVAL /\ Trace = << >>

C4_Witness ==
    /\ last.op = "obmm_preimport"
    /\ ~last.in.info.null
    /\ NoIoctlIn(Trace)
    /\ ~NoIoctlIn(ImportOfSame.trace)

----------------------------------------------------------------------------
(* C5: Unexport and Unimport with mem_id 0 fail with EINVAL, issue no      *)
(* ioctl and do not open the device; with a non-zero mem_id and an         *)
(* openable device exactly one Unexport / Unimport ioctl is issued and its *)
(* result is returned unchanged.                                           *)

TeardownCmd ==
    IF last.op = "obmm_unexport" THEN "OBMM_CMD_UNEXPORT" ELSE "OBMM_CMD_UNIMPORT"

C5_TeardownSentinel ==
    last.op \in {"obmm_unexport", "obmm_unimport"} =>
        /\ last.in.id = 0 =>
             /\ last.out.ret = -1
             /\ last.out.errno = EINVAL
             /\ Trace = << >>
             /\ HandleUntouched
        /\ (last.in.id # 0 /\ (last.p.fd >= 0 \/ devnode)) =>
             /\ Cardinality(Ioctls) = 1
             /\ Ioctls = IoctlsOf(TeardownCmd)
             /\ last.out.cmd.mem_id = last.in.id
             /\ last.out.ret = IoctlRet(last.out.dev)
             /\ ~last.out.dev.ok => last.out.errno = last.out.dev.err

C5_Witness ==
    /\ last.op = "obmm_unimport"
    /\ last.in.id = 0
    /\ devnode /\ last.p.fd < 0
    /\ last.out.errno = EINVAL /\ obmm_dev_fd < 0

----------------------------------------------------------------------------
(* C6 (as claimed): Export and ExportByAddress with an all-zero            *)
(* destination endpoint id fail with EINVAL before any topology            *)
(* resolution: no attribute read, no payload allocated, no Export ioctl.   *)

ZeroDeidExport ==
    /\ last.op \in ExportOps
    /\ ~last.in.desc.null
    /\ last.op = "obmm_export" => ~last.in.length.null
    /\ last.in.desc.v.deid = Eid(0, 0)

C6_Original ==
    ZeroDeidExport =>
        /\ last.out.ret = OBMM_INVALID_MEMID
        /\ last.out.errno = EINVAL
        /\ FsReads = {} /\ EventsOf("calloc") = {} /\ Ioctls = {}

(* C6 (amended): such a call fails before any topology resolution (no      *)
(* attribute read, no payload allocated, no Export ioctl), but after       *)
(* obtaining the device handle: the error is EINVAL when the handle was    *)
(* obtained and the error of open() when it was not.                       *)

C6_ZeroDeidBeforeTopology ==
    ZeroDeidExport =>
        /\ last.out.ret = OBMM_INVALID_MEMID
        /\ FsReads = {} /\ EventsOf("calloc") = {} /\ Ioctls = {}
        /\ heap = last.p.heap
        /\ HandleObtained => last.out.errno = EINVAL
        /\ ~HandleObtained => (last.out.errno = OpenErr /\ Trace = <<EvOpen>>)

C6_Witness ==
    /\ ZeroDeidExport
    /\ HandleObtained
    /\ \E i \in Slots : sysfs[i].path = "ok"
    /\ last.out.errno = EINVAL

----------------------------------------------------------------------------
(* C7 (as claimed): in every public transaction null or malformed input    *)
(* (null descriptor or length array, null output pointer, all-zero         *)
(* destination eid on export, invalid mem-id sentinel, out-of-range        *)
(* base_distance, invalid protection flags) is rejected with the           *)
(* validation error before any I/O of the call.                            *)

NullArgument ==
    \/ last.op \in ExportOps \cup {"obmm_import"} /\ last.in.desc.null
    \/ last.op = "obmm_export" /\ last.in.length.null
    \/ last.op \in {"obmm_preimport", "obmm_unpreimport"} /\ last.in.info.null

NullOutput ==
    \/ last.op = "obmm_query_memid_by_pa"
         /\ (last.in.id.null \/ last.in.offset.null)
    \/ last.op = "obmm_query_pa_by_memid" /\ last.in.pa.null

BadMemId ==
    last.op \in {"obmm_unexport", "obmm_unimport"} /\ last.in.id = 0

BadBaseDist ==
    \/ /\ last.op = "obmm_import"
       /\ RemoteNoPreimport(last.in.flags)
       /\ ~InRange(last.in.base_dist)
    \/ /\ last.op = "obmm_preimport"
       /\ ~last.in.info.null
       /\ ~InRange(last.in.info.v.base_dist)

BadProt ==
    last.op = "obmm_set_ownership" /\ last.in.prot \notin {0, 1, 2, 3}

RejectedBeforeIo ==
    /\ Failed
    /\ last.out.errno = EINVAL
    /\ Trace = << >>
    /\ HandleUntouched

C7_Original ==
    (NullArgument \/ NullOutput \/ ZeroDeidExport \/ BadMemId \/ BadBaseDist
       \/ BadProt)
    => RejectedBeforeIo

(* C7 (amended): a null descriptor, length array or preimport descriptor,  *)
(* the invalid mem-id sentinel, a base_distance out of range (Import with  *)
(* NUMA-remote and without preimport; DeclarePreimport always) and invalid *)
(* protection flags are rejected with EINVAL before any I/O of the call,   *)
(* also when the control device cannot be opened.  An all-zero destination *)
(* eid on export is rejected only after the device handle was asked for    *)
(* (no topology read, no ioctl), and a null output pointer of an address   *)
(* query is not rejected: the query is issued.                             *)

C7_LocalValidationFirst ==
    /\ (NullArgument \/ BadMemId \/ BadBaseDist \/ BadProt) => RejectedBeforeIo
    /\ ZeroDeidExport =>
         /\ Failed
         /\ \A k \in DOMAIN Trace : Trace[k] = EvOpen
    /\ (NullOutput /\ HandleObtained) =>
         /\ Cardinality(IoctlsOf("OBMM_CMD_ADDR_QUERY")) = 1
         /\ last.out.ret = IoctlRet(last.out.dev)

C7_Witness ==
    /\ BadBaseDist
    /\ last.op = "obmm_preimport"
    /\ ~devnode /\ last.p.fd < 0
    /\ RejectedBeforeIo

----------------------------------------------------------------------------
(* C8: vendor payload lifecycle.  In every Export and ExportByAddress a    *)
(* payload that was built is passed to exactly one ioctl and then freed    *)
(* exactly once, whether the ioctl succeeds or fails; when the build fails *)
(* or is not reached nothing stays allocated; no payload is live when a    *)
(* call returns, after any sequence of calls.                              *)

Callocs == EventsOf("calloc")
Frees   == EventsOf("free")

\* the allocation at position k is freed exactly once, later; up to then it
\* is either handed to exactly one Export ioctl, or (the build failed with
\* EINVAL) to none
LifecycleOf(k) ==
    LET mine == { j \in Frees : Trace[j].arg = Trace[k].arg } IN
    /\ Cardinality(mine) = 1
    /\ \A j \in mine :
         /\ j > k
         /\ \/ /\ j = k + 2
               /\ Trace[k + 1].ev = "ioctl"
               /\ Trace[k + 1].arg = Trace[k].arg
               /\ Ioctls = {k + 1}
               /\ last.out.cmd.vendor_info = Trace[k].arg
            \/ /\ j = k + 1
               /\ Ioctls = {}
               /\ last.out.errno = EINVAL /\ Failed

C8_PayloadLifecycle ==
    /\ heap = 0
    /\ last.op \in ExportOps =>
         /\ Cardinality(Callocs) <= 1
         /\ \A k \in Callocs : LifecycleOf(k)
         /\ \A j \in Frees : \E k \in Callocs : k < j /\ Trace[k].arg = Trace[j].arg
         /\ \A i \in Ioctls : \E k \in Callocs : k < i /\ Trace[k].arg = Trace[i].arg

C8_Witness ==
    /\ last.op = "obmm_export_useraddr"
    /\ Ioctls # {}
    /\ ~last.out.dev.ok
    /\ Frees # {}
    /\ heap = 0

----------------------------------------------------------------------------
(* C9: cleanup never masks the transaction's result: when the ioctl of an  *)
(* Export or ExportByAddress fails, errno on return is the code the ioctl  *)
(* set, even if releasing the vendor payload changed errno in between.     *)

C9_CleanupKeepsErrno ==
    (last.op \in ExportOps /\ Ioctls # {} /\ ~last.out.dev.ok)
    => last.out.errno = last.out.dev.err

\* the part of C9 that the code does satisfy: Export
C9_ExportKeepsErrno ==
    (last.op = "obmm_export" /\ Ioctls # {} /\ ~last.out.dev.ok)
    => last.out.errno = last.out.dev.err

----------------------------------------------------------------------------
(* C10: device handle singleton.  Under any interleaving of concurrent     *)
(* transactions the control device is opened successfully at most once;    *)
(* every call that obtains a handle obtains that same value; the handle is *)
(* never closed or replaced, also after a transaction that failed.         *)

C10_HandleSingleton ==
    /\ Cardinality(fdtable) <= 1
    /\ fdtable # {} => fdtable = {obmm_dev_fd}
    /\ \A t \in Threads : tret[t] >= 0 => tret[t] = obmm_dev_fd

C10_Witness ==
    \E t, u \in Threads :
        /\ t # u
        /\ pc[t] = "idle" /\ tret[t] >= 0 /\ terrno[t] = "EBUSY"
        /\ pc[u] = "got" /\ tret[u] = tret[t]
        /\ fdtable = {tret[u]}

----------------------------------------------------------------------------
(* C11: a failed open of the control device is not cached.  Whenever a     *)
(* thread passes the test under the lock with no handle stored, however    *)
(* many calls failed before, it attempts the open: if the device can be    *)
(* opened the handle is stored and seen by the caller with no error, and   *)
(* if not the caller's error code is the one of this attempt; a call whose *)
(* own attempt failed returns with that error code.                        *)

PassesTest(t) == pc[t] = "locked" /\ pc'[t] = "unlock"

C11_FailedOpenNotCached ==
    /\ [][ \A t \in Threads :
             (PassesTest(t) /\ obmm_dev_fd < 0) =>
                 /\ devnode =>
                      /\ obmm_dev_fd' >= 0
                      /\ obmm_dev_fd' \in fdtable' /\ obmm_dev_fd' \notin fdtable
                      /\ seen'[t] = obmm_dev_fd'
                      /\ errsv'[t] = ENONE
                 /\ ~devnode =>
                      /\ obmm_dev_fd' < 0
                      /\ seen'[t] < 0
                      /\ errsv'[t] = OpenErr ]_vars
    /\ [](\A t \in Threads :
             (pc[t] = "got" /\ errsv[t] = OpenErr) => terrno[t] = OpenErr)

\* one thread's call has failed and is over; a later open succeeded and
\* another thread holds the handle, with no error
C11_Witness ==
    \E t, u \in Threads :
        /\ pc[t] = "idle" /\ tret[t] < 0 /\ terrno[t] = OpenErr
        /\ pc[u] = "got" /\ tret[u] >= 0 /\ terrno[u] = ENONE
        /\ errsv[u] = ENONE
        /\ obmm_dev_fd = tret[u]

----------------------------------------------------------------------------
(* C12 (as claimed): on a successful Export the descriptor's length equals *)
(* the sum of all per-NUMA-node lengths passed in, for every length        *)
(* vector; on a successful ExportByAddress it equals the requested length. *)

ExportSucceeded ==
    /\ last.op \in ExportOps
    /\ Ioctls # {}
    /\ last.out.dev.ok

\* the sum of limb k over the entries i .. of a length vector
RECURSIVE LimbSum(_, _, _)
LimbSum(v, k, i) ==
    IF i > Len(v) THEN 0 ELSE v[i][k] + LimbSum(v, k, i + 1)

\* the sum of a length vector as a natural number: five limbs, the fifth
\* being what does not fit in 64 bits
ExactSum(v) ==
    LET c1 == LimbSum(v, 1, 1)
        c2 == LimbSum(v, 2, 1) + (c1 \div Limb)
        c3 == LimbSum(v, 3, 1) + (c2 \div Limb)
        c4 == LimbSum(v, 4, 1) + (c3 \div Limb)
    IN  <<c1 % Limb, c2 % Limb, c3 % Limb, c4 % Limb, c4 \div Limb>>

C12_Original ==
    /\ (ExportSucceeded /\ last.op = "obmm_export") =>
         last.out.w.desc.v.length \o <<0>> = ExactSum(last.in.length.v)
    /\ (ExportSucceeded /\ last.op = "obmm_export_useraddr") =>
         last.out.w.desc.v.length = last.in.length

(* C12 (amended): on a successful Export the descriptor's length equals    *)
(* the sum of all per-NUMA-node lengths modulo 2^64, the width of the      *)
(* length field: it is the exact sum whenever that is below 2^64 (e.g.     *)
(* [4096,0,...] gives 4096) and wraps around otherwise.  On a successful   *)
(* ExportByAddress it equals the requested length.                         *)

C12_LengthIsSumMod64 ==
    /\ (ExportSucceeded /\ last.op = "obmm_export") =>
         last.out.w.desc.v.length = SubSeq(ExactSum(last.in.length.v), 1, 4)
    /\ (ExportSucceeded /\ last.op = "obmm_export_useraddr") =>
         last.out.w.desc.v.length = last.in.length

C12_Witness ==
    /\ ExportSucceeded /\ last.op = "obmm_export"
    /\ ExactSum(last.in.length.v)[5] > 0
    /\ last.out.w.desc.v.length = Zero64
    /\ last.out.ret = last.out.dev.mem_id

----------------------------------------------------------------------------
(* C13 (as claimed): a successful Export or ExportByAddress mutates only   *)
(* the address, token-id and length fields of the caller's descriptor;     *)
(* endpoint ids, channel numbers and private length are left unchanged.    *)

DescIn  == last.in.desc.v
DescOut == last.out.w.desc.v

C13_Original ==
    ExportSucceeded =>
        DescOut = [DescIn EXCEPT !.addr = DescOut.addr,
                                 !.tokenid = DescOut.tokenid,
                                 !.length = DescOut.length]

(* C13 (amended): a successful Export or ExportByAddress writes five       *)
(* fields of the caller's descriptor: address and token-id from the        *)
(* device's reply, length, and the source and destination channel numbers, *)
(* which are both set to 0 whatever they were.  The endpoint ids and the   *)
(* private length are left unchanged.                                      *)

C13_ExportWritesFiveFields ==
    ExportSucceeded =>
        /\ DescOut = [DescIn EXCEPT !.addr = last.out.dev.uba,
                                    !.tokenid = last.out.dev.tokenid,
                                    !.length = DescOut.length,
                                    !.scna = 0, !.dcna = 0]
        /\ DescOut.seid = DescIn.seid /\ DescOut.deid = DescIn.deid
        /\ DescOut.priv_len = DescIn.priv_len

C13_Witness ==
    /\ ExportSucceeded
    /\ last.op = "obmm_export_useraddr"
    /\ DescIn.scna = 3 /\ DescIn.dcna = 4
    /\ DescOut.scna = 0 /\ DescOut.dcna = 0
    /\ DescOut.addr = last.out.dev.uba

----------------------------------------------------------------------------
(* C14: SetOwnership maps protection none to the no-access page state,     *)
(* read to read-only, and both write and read|write to read-write, and     *)
(* issues exactly one UpdateProtectionRange ioctl on the handle the caller *)
(* supplied (the control device is not involved); for every other          *)
(* protection value it fails with EINVAL and issues nothing.               *)

PageState(access) ==
    IF access = "OBMM_SHM_MEM_NO_ACCESS"
    THEN {"OBMM_SHM_MEM_NORMAL_NC", access}
    ELSE {"OBMM_SHM_MEM_NORMAL", access}

OneUpdateRange(access) ==
    /\ Len(Trace) = 1
    /\ Trace[1] = EvIoctl("OBMM_SHMDEV_UPDATE_RANGE", NoPayload)
    /\ last.out.cmd.fd = last.in.fd
    /\ last.out.cmd.start = last.in.start /\ last.out.cmd.end = last.in.end
    /\ last.out.cmd.mem_state = PageState(access)
    /\ last.out.ret = IoctlRet(last.out.dev)
    /\ HandleUntouched

C14_OwnershipMapping ==
    last.op = "obmm_set_ownership" =>
        /\ last.in.prot = 0 => OneUpdateRange("OBMM_SHM_MEM_NO_ACCESS")
        /\ last.in.prot = 1 => OneUpdateRange("OBMM_SHM_MEM_READONLY")
        /\ last.in.prot \in {2, 3} => OneUpdateRange("OBMM_SHM_MEM_READWRITE")
        /\ last.in.prot \notin {0, 1, 2, 3} =>
             /\ last.out.ret = -1
             /\ last.out.errno = EINVAL
             /\ Trace = << >>
             /\ HandleUntouched

C14_Witness ==
    /\ last.op = "obmm_set_ownership"
    /\ last.in.prot = 2
    /\ last.out.cmd.mem_state = PageState("OBMM_SHM_MEM_READWRITE")
    /\ last.out.ret = 0
    /\ obmm_dev_fd < 0

----------------------------------------------------------------------------
(* C15: no state is retained across calls.  The vendor payload and pxm     *)
(* NUMA id sent by an Export or ExportByAddress, and the accept/reject     *)
(* decision of an Import or DeclarePreimport, are those of the topology    *)
(* attributes as they are at the time of the call, and are the same        *)
(* whatever earlier calls left behind (cached handle or none, errno, heap) *)
(* as long as the device handle can be had.                                *)

\* what earlier calls can have left behind, with the topology as it is now
AltProcs ==
    { [fd |-> f, tbl |-> IF f < 0 THEN {} ELSE {f}, errno |-> e, heap |-> h,
       node |-> TRUE, fs |-> sysfs] :
      f \in {-1, 5}, e \in {ENONE, "EIO"}, h \in {0, 1} }

\* the device and allocator behaving as in the call that has just returned
SameEnv ==
    [allocOk |-> TRUE, fits |-> TRUE, freeErr |-> Keep,
     dev |-> IF last.out.dev = NoReply THEN DevOk ELSE last.out.dev]

\* the call that has just returned, made again from process state q
Rerun(q) ==
    CASE last.op = "obmm_export" ->
           obmm_export(last.in.length, last.in.flags, last.in.desc, q, SameEnv,
                       last.out.cmd.vendor.ummu_idx_mask)
      [] last.op = "obmm_export_useraddr" ->
           obmm_export_useraddr(last.in.pid, last.in.va, last.in.length,
                                last.in.flags, last.in.desc, q, SameEnv,
                                last.out.cmd.vendor.ummu_idx_mask)
      [] last.op = "obmm_import" ->
           obmm_import(last.in.desc, last.in.flags, last.in.base_dist,
                       last.in.numa, q, SameEnv)
      [] last.op = "obmm_preimport" ->
           obmm_preimport(last.in.info, last.in.flags, q, SameEnv)

\* the controller slot a call resolved its eid to: the one whose eid
\* attribute it read last
ResolvedSlot == Trace[CHOOSE k \in ReadsOf("eid") :
                         \A j \in ReadsOf("eid") : j <= k].arg

C15_NoStateRetained ==
    /\ (last.op \in ExportOps /\ Ioctls # {}) =>
         /\ last.out.cmd.pxm_numa = sysfs[ResolvedSlot].numa.val
         /\ last.out.cmd.vendor.ummu_idx_mask
              \in MaskOutcomes(sysfs[ResolvedSlot].ummu_map.val)
         /\ \A q \in AltProcs :
              /\ ~NoIoctlIn(Rerun(q).trace)
              /\ Rerun(q).cmd.vendor = last.out.cmd.vendor
              /\ Rerun(q).cmd.pxm_numa = last.out.cmd.pxm_numa
    /\ ( /\ last.op \in {"obmm_import", "obmm_preimport"}
         /\ HandleObtained )
       => \A q \in AltProcs :
             /\ NoIoctlIn(Rerun(q).trace) <=> NoIoctlIn(Trace)
             /\ NoIoctlIn(Trace) => Rerun(q).errno = last.out.errno

\* an Export on a handle an earlier call opened, resolved to the second
\* controller, whose attributes differ from the first's
C15_Witness ==
    /\ last.op = "obmm_export"
    /\ Ioctls # {}
    /\ last.p.fd >= 0
    /\ ResolvedSlot = 1
    /\ sysfs[0].path = "ok"
    /\ sysfs[0].numa # sysfs[1].numa
    /\ last.out.cmd.pxm_numa = sysfs[1].numa.val

----------------------------------------------------------------------------
(* C16: address queries are mutual inverses.  The library forwards pa,     *)
(* mem_id and offset to and from the device unchanged and tags each        *)
(* request with the matching key type; so, against a device that answers   *)
(* for a live exported region, feeding the (mem_id, offset) returned by    *)
(* QueryMemIdByPa(pa) into QueryPaByMemId gives pa again, for every pa in  *)
(* the region, and the other way round.                                    *)

\* addresses of the region: first, last, and one in between
RegionPas == { RegionBase, DevOk.pa, RegionBase + 4095 }

\* the process as the call that has just returned left it
ProcNow == [fd |-> obmm_dev_fd, tbl |-> fdtable, errno |-> errno,
            heap |-> heap, node |-> devnode, fs |-> sysfs]

PaRoundTrip(pa) ==
    LET r1 == query_memid_by_pa_live(pa, Ptr(0), Ptr(0), ProcNow)
        r2 == query_pa_by_memid_live(r1.w.id.v, r1.w.offset.v, Ptr(0), ProcNow)
    IN  /\ r1.ret = 0 /\ r2.ret = 0
        /\ r2.w.pa.v = pa

IdRoundTrip(off) ==
    LET r1 == query_pa_by_memid_live(DevOk.mem_id, off, Ptr(0), ProcNow)
        r2 == query_memid_by_pa_live(r1.w.pa.v, Ptr(0), Ptr(0), ProcNow)
    IN  /\ r1.ret = 0 /\ r2.ret = 0
        /\ r2.w.id.v = DevOk.mem_id /\ r2.w.offset.v = off

QueryIssued ==
    /\ last.op \in {"obmm_query_memid_by_pa", "obmm_query_pa_by_memid"}
    /\ Ioctls # {}

C16_QueriesInverse ==
    /\ (QueryIssued /\ last.op = "obmm_query_memid_by_pa") =>
         /\ last.out.cmd.key_type = "OBMM_QUERY_BY_PA"
         /\ last.out.cmd.pa = last.in.pa
         /\ last.out.dev.ok =>
              /\ last.out.ret = 0
              /\ ~last.in.id.null => last.out.w.id.v = last.out.dev.mem_id
              /\ ~last.in.offset.null =>
                     last.out.w.offset.v = last.out.dev.offset
    /\ (QueryIssued /\ last.op = "obmm_query_pa_by_memid") =>
         /\ last.out.cmd.key_type = "OBMM_QUERY_BY_ID_OFFSET"
         /\ last.out.cmd.mem_id = last.in.id
         /\ last.out.cmd.offset = last.in.offset
         /\ last.out.dev.ok =>
              /\ last.out.ret = 0
              /\ ~last.in.pa.null => last.out.w.pa.v = last.out.dev.pa
    /\ (QueryIssued /\ last.out.dev.ok) =>
         /\ \A pa \in RegionPas : PaRoundTrip(pa)
         /\ \A pa \in RegionPas : IdRoundTrip(pa - RegionBase)

\* the second leg of a round trip: the device, asked with the pair the first
\* leg returned for DevOk.pa, has given that address back
C16_Witness ==
    /\ QueryIssued
    /\ last.op = "obmm_query_pa_by_memid"
    /\ last.in.id = DevOk.mem_id /\ last.in.offset = DevOk.offset
    /\ last.out.dev = AddrQueryReply(last.out.cmd)
    /\ ~last.in.pa.null /\ last.out.w.pa.v = DevOk.pa
    /\ query_memid_by_pa_live(DevOk.pa, Ptr(0), Ptr(0), ProcNow).w.offset.v
         = last.in.offset

----------------------------------------------------------------------------
(* C17: for every mapping index the ummu_map attribute can yield (0 up to  *)
(* the largest int) the vendor payload sent by an export has version V1,   *)
(* the on-chip flag set, and a bitmask with exactly one bit set, at        *)
(* position mapping_index.                                                 *)

C17_OneBitAtMappingIndex ==
    (last.op \in ExportOps /\ Ioctls # {}) =>
        /\ last.out.cmd.vendor.ver = "HISI_TDEV_INFO_V1"
        /\ last.out.cmd.vendor.on_chip
        /\ last.out.cmd.vendor.ummu_idx_mask
             = { sysfs[ResolvedSlot].ummu_map.val }

\* what the code does satisfy: the claim for mapping indexes below 31, the
\* width of the int that is shifted
C17_OneBitBelow31 ==
    ( /\ last.op \in ExportOps /\ Ioctls # {}
      /\ sysfs[ResolvedSlot].ummu_map.val < 31 ) =>
        /\ last.out.cmd.vendor.ver = "HISI_TDEV_INFO_V1"
        /\ last.out.cmd.vendor.on_chip
        /\ last.out.cmd.vendor.ummu_idx_mask
             = { sysfs[ResolvedSlot].ummu_map.val }

----------------------------------------------------------------------------
(* C18 (as claimed): topology resolution scans controller slots 0..7 in    *)
(* ascending order and the first match wins: whenever at least one present *)
(* slot has an eid attribute equal to the requested endpoint id the        *)
(* lowest-numbered such slot is selected; resolution fails NotFound only   *)
(* when no slot matches.                                                   *)

\* the call that has just returned went through a resolution
Resolves ==
    /\ last.op \in ExportOps \cup {"obmm_import", "obmm_preimport"}
    /\ FsReads # {}

\* the endpoint id it asked for
Requested ==
    IF last.op \in ExportOps THEN last.in.desc.v.deid
    ELSE IF last.op = "obmm_import" THEN last.in.desc.v.seid
    ELSE last.in.info.v.seid

Present(i) == sysfs[i].path # "none"

EidMatches(i) ==
    /\ sysfs[i].eid.ok
    /\ sysfs[i].eid.hi = 0
    /\ sysfs[i].eid.val >= 0
    /\ Requested = [lo |-> sysfs[i].eid.val, rest |-> 0]

\* the slots whose further attributes the call went on to read
Selected ==
    { Trace[k].arg : k \in ReadsOf("ummu_map") \cup ReadsOf("primary_cna") }

\* the slots the scan looked at
Scanned == { Trace[k].arg : k \in EventsOf("glob") }

NotFound == Selected = {} /\ Failed /\ last.out.errno = ENODEV

C18_Original ==
    Resolves =>
        LET matching == { i \in Slots : Present(i) /\ EidMatches(i) } IN
        /\ matching # {} =>
             Selected = { CHOOSE i \in matching : \A j \in matching : i <= j }
        /\ matching = {} => (NotFound /\ Scanned = Slots)

(* C18 (amended): the scan goes through slots 0..7 in ascending order,     *)
(* skipping a slot that is absent or whose directory path does not fit the *)
(* path buffer, and stops at the first slot whose eid attribute matches    *)
(* the requested id, which it selects, or cannot be read, where it fails   *)
(* with ENODEV without looking at later slots, matching or not.  It fails  *)
(* NotFound after all eight slots when it stops at none.                   *)

Usable(i) == sysfs[i].path = "ok"

Unparsable(i) ==
    ~sysfs[i].eid.ok \/ sysfs[i].eid.hi # 0 \/ sysfs[i].eid.val < 0

C18_FirstMatchOrReadError ==
    Resolves =>
        LET stops == { i \in Slots : Usable(i) /\ (EidMatches(i) \/ Unparsable(i)) }
            stop  == CHOOSE i \in stops : \A j \in stops : i <= j
        IN
        /\ \A k, l \in EventsOf("glob") : k < l => Trace[k].arg < Trace[l].arg
        /\ stops = {} => (NotFound /\ Scanned = Slots)
        /\ stops # {} =>
             /\ Scanned = 0 .. stop
             /\ EidMatches(stop) => Selected = {stop}
             /\ Unparsable(stop) => NotFound

\* the first controller's eid cannot be read and the second one matches:
\* the resolution fails
C18_Witness ==
    /\ Resolves
    /\ Usable(0) /\ Unparsable(0)
    /\ Usable(1) /\ EidMatches(1)
    /\ NotFound
    /\ Scanned = {0}

----------------------------------------------------------------------------
(* C19: the mutex guarding the device handle is held only during the       *)
(* open-and-memoize step: a thread holds it exactly from its lock to its   *)
(* unlock, on every path (open success, open failure, already open), never *)
(* while it returns or runs its device transaction; and with concurrent    *)
(* callers every call of get_handle eventually returns, given that each    *)
(* open attempt returns and the mutex is granted fairly.                   *)

HoldsMutex(t) == mtx = t

----------------------------------------------------------------------------
(* C20: the return value and error code of get_handle are consistent under *)
(* concurrency: in every interleaving a call returns a non-negative handle *)
(* exactly when it leaves the error code at 0, a negative value exactly    *)
(* when it leaves the error code of its own failed open, and the value     *)
(* returned is the one observed while the mutex was held.                  *)

C20_ReturnConsistent ==
    \A t \in Threads :
        pc[t] = "got" =>
            /\ tret[t] >= 0 <=> terrno[t] = ENONE
            /\ tret[t] < 0 <=> terrno[t] = OpenErr
            /\ tret[t] = seen[t]

\* what the code does satisfy: the error code is the one of the call's own
\* attempt, and a call that saw a handle under the lock returns that handle
C20_ErrnoIsOwnAttempt ==
    \A t \in Threads :
        pc[t] = "got" =>
            /\ terrno[t] = errsv[t]
            /\ seen[t] >= 0 => (tret[t] = seen[t] /\ terrno[t] = ENONE)
            /\ seen[t] < 0 => terrno[t] = OpenErr

----------------------------------------------------------------------------
(* C21: NUMA output is written only on success.  DeclarePreimport sets the *)
(* descriptor's NUMA id to the value in the device reply when the device   *)
(* transaction succeeds, and Import writes the device-assigned NUMA id     *)
(* through the caller's hint pointer on success; on every failing path     *)
(* (local validation, device unavailable, topology not found, channel      *)
(* mismatch, device rejected) the preimport descriptor's NUMA id and the   *)
(* caller's NUMA hint are left unchanged.                                  *)

NumaOps == { "obmm_import", "obmm_preimport" }

\* the device answered the call's command and refused it
DeviceRejected == Ioctls # {} /\ ~last.out.dev.ok

C21_NumaOnlyOnSuccess ==
    /\ last.op = "obmm_import" =>
          /\ last.out.w.desc = last.in.desc
          /\ Failed => last.out.w.numa = last.in.numa
          /\ ~Failed =>
                /\ last.out.dev.ok /\ Ioctls # {}
                /\ last.out.w.numa.null = last.in.numa.null
                /\ ~last.in.numa.null =>
                      last.out.w.numa.v = last.out.dev.numa_id
                /\ last.in.numa.null => last.out.w.numa = last.in.numa
    /\ last.op = "obmm_preimport" =>
          /\ Failed => last.out.w.info = last.in.info
          /\ ~Failed =>
                /\ last.out.dev.ok /\ Ioctls # {}
                /\ last.out.w.info =
                      Ptr([last.in.info.v EXCEPT
                             !.numa_id = last.out.dev.numa_id])

\* Import with a hint was refused by the device, whose reply carried a NUMA
\* id other than the hint
C21_Witness ==
    /\ last.op = "obmm_import" /\ Failed /\ DeviceRejected
    /\ ~last.in.numa.null
    /\ last.out.dev.numa_id # last.in.numa.v

\* both operations reach their success path and change the output
C21_WitnessImportOk ==
    /\ last.op = "obmm_import" /\ ~Failed
    /\ last.out.w.numa # last.in.numa

C21_WitnessPreimportOk ==
    /\ last.op = "obmm_preimport" /\ ~Failed
    /\ last.out.w.info.v.numa_id # last.in.info.v.numa_id

C21_WitnessPreimportRejected ==
    /\ last.op = "obmm_preimport" /\ Failed /\ DeviceRejected
    /\ last.out.dev.numa_id # last.in.info.v.numa_id

----------------------------------------------------------------------------
(* C22: a failed Export or ExportByAddress leaves the caller's descriptor  *)
(* entirely unchanged, on every failure path (null argument, device        *)
(* unavailable, all-zero destination endpoint id, unresolvable topology,   *)
(* payload build failure, device transaction rejected); the descriptor is  *)
(* written only after the device transaction has succeeded.                *)

DescWritten == last.out.w.desc # last.in.desc

C22_FailedExportKeepsDesc ==
    last.op \in ExportOps =>
        /\ Failed => ~DescWritten
        /\ DescWritten =>
              /\ Ioctls # {} /\ last.out.dev.ok
              /\ last.out.ret = last.out.dev.mem_id

\* the device refused an Export whose reply differs from the descriptor
C22_Witness ==
    /\ last.op = "obmm_export" /\ Failed /\ DeviceRejected
    /\ last.out.dev.uba # last.in.desc.v.addr
    /\ last.out.dev.tokenid # last.in.desc.v.tokenid

\* the same for ExportByAddress, and the other failure paths after the
\* argument check; a successful call does write the descriptor
C22_WitnessByAddress ==
    /\ last.op = "obmm_export_useraddr" /\ Failed /\ DeviceRejected

C22_WitnessNoDevice ==
    /\ last.op \in ExportOps /\ Failed /\ ~last.in.desc.null
    /\ ~HandleObtained

C22_WitnessNoTopology ==
    /\ last.op \in ExportOps /\ Failed /\ HandleObtained
    /\ last.in.desc.v.deid # g_invalid_eid
    /\ Callocs = {} /\ Ioctls = {} /\ FsReads # {}

C22_WitnessPayload ==
    /\ last.op \in ExportOps /\ Failed /\ HandleObtained
    /\ last.out.errno = ENOMEM /\ Ioctls = {}

C22_WitnessWritten ==
    /\ last.op \in ExportOps /\ ~Failed /\ DescWritten

----------------------------------------------------------------------------
(* C23: endpoint-id matching is byte-for-byte over all 16 bytes against    *)
(* the slot's eid attribute zero-extended into a 16-byte buffer: a         *)
(* requested endpoint id matches a slot exactly when its low-order bytes   *)
(* equal the integer read from the slot's eid attribute and all remaining  *)
(* bytes are zero, so every eid attribute value the filesystem can expose  *)
(* (decimal or 0x-hex integer) is matchable by the endpoint id with that   *)
(* value, and an endpoint id with any non-zero byte beyond the integer's   *)
(* width never resolves.                                                   *)

\* the attribute file holds an integer that fits the four low-order bytes
HoldsWord(c) == c.ok /\ (c.hi = 0 \/ (c.hi = 1 /\ c.val >= 0))

\* the 16-byte id with the value of such an attribute
EidOfValue(c) == Eid(IF c.hi = 1 THEN INT_MIN + c.val ELSE c.val, 0)

\* slot i is the first one the scan can open
FirstUsable(i) == Usable(i) /\ \A j \in 0 .. (i - 1) : ~Usable(j)

C23_EveryValueMatchable ==
    Resolves =>
        /\ \A i \in Selected :
              HoldsWord(sysfs[i].eid) /\ Requested = EidOfValue(sysfs[i].eid)
        /\ Requested.rest # 0 => (Selected = {} /\ Failed)
        /\ \A i \in Slots :
              ( /\ FirstUsable(i)
                /\ HoldsWord(sysfs[i].eid)
                /\ Requested = EidOfValue(sysfs[i].eid) ) => Selected = {i}

\* what the code does satisfy: the values from 0 to INT_MAX are matchable,
\* the comparison covers all 16 bytes, and a first slot whose eid attribute
\* is not such a value ends the resolution with ENODEV
C23_NonNegativeIntMatchable ==
    Resolves =>
        /\ \A i \in Selected :
              /\ sysfs[i].eid.ok /\ sysfs[i].eid.hi = 0
              /\ sysfs[i].eid.val \in 0 .. INT_MAX
              /\ Requested = Eid(sysfs[i].eid.val, 0)
        /\ Requested.rest # 0 => (Selected = {} /\ Failed)
        /\ \A i \in Slots :
              FirstUsable(i) =>
                  /\ ( /\ sysfs[i].eid.ok /\ sysfs[i].eid.hi = 0
                       /\ sysfs[i].eid.val >= 0
                       /\ Requested = Eid(sysfs[i].eid.val, 0) )
                     => Selected = {i}
                  /\ Unparsable(i) => NotFound

\* the only controller has the eid 0x80000000 and the id with bytes
\* 00 00 00 80 00 .. 00 is asked for: the resolution fails
C23_WitnessWide ==
    /\ Resolves
    /\ FirstUsable(0) /\ ~Present(1)
    /\ sysfs[0].eid = Long(1, 0)
    /\ Requested = Eid(INT_MIN, 0)
    /\ NotFound

\* an id whose low-order bytes are a controller's eid and whose other bytes
\* are not zero does not resolve
C23_WitnessHighBytes ==
    /\ Resolves
    /\ FirstUsable(0) /\ sysfs[0].eid = File(1)
    /\ Requested = Eid(1, 1)
    /\ NotFound /\ Scanned = Slots

====
